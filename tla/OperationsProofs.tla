-------------------------- MODULE OperationsProofs --------------------------
(***************************************************************************)
(* Theorems about the smaller components, each under its own               *)
(* specification: the matching of payments, the imports of card            *)
(* statements, of suppliers and of the old register, the review of an      *)
(* intake, and the revert of a student import; then about all of them as   *)
(* one specification.                                                      *)
(***************************************************************************)
EXTENDS MCOperations, BankImportProofs, DocumentsProofs, CountingProofs, TLAPS

-----------------------------------------------------------------------------
(* Matching: what a score means *)

LEMMA PointsAreBounded ==
  ASSUME NEW s \in Signal
  PROVE  /\ RefPoints(s) \in 0..40 /\ (s.ref = "none" => RefPoints(s) = 0)
         /\ AmountPoints(s) \in 0..40
         /\ NamePoints(s) \in 0..15 /\ (s.name = "none" => NamePoints(s) = 0)
         /\ DatePoints(s) \in 0..8
<1>1. /\ s.ref \in {"none", "suffix", "exact"}
      /\ s.diff \in {"none", "rounding", "other"}
      /\ s.name \in {"none", "similar", "prefix", "exact"}
      /\ s.days \in -30..30
  BY DEF Signal
<1>2. RefPoints(s) \in 0..40 /\ (s.ref = "none" => RefPoints(s) = 0)
  BY <1>1 DEF RefPoints
<1>3. AmountPoints(s) \in 0..40
  BY <1>1 DEF AmountPoints
<1>4. NamePoints(s) \in 0..15 /\ (s.name = "none" => NamePoints(s) = 0)
  BY <1>1 DEF NamePoints
<1>5. DatePoints(s) \in 0..8
  <2> DEFINE away == IF s.days < 0 THEN -s.days ELSE s.days
  <2>1. away \in 0..30
    BY <1>1
  <2>2. DatePoints(s) =
          CASE ~InWindow(s) \/ away > 7 -> 0
            [] InWindow(s) /\ away = 0 -> 8
            [] InWindow(s) /\ away = 1 -> 6
            [] InWindow(s) /\ away \in 2..3 -> 4
            [] InWindow(s) /\ away \in 4..7 -> 2
    BY DEF DatePoints
  <2> HIDE DEF away
  <2>3. CASE ~InWindow(s)
    BY <2>2, <2>3
  <2>4. CASE InWindow(s)
    <3>1. away > 7 \/ away = 0 \/ away = 1 \/ away \in 2..3 \/ away \in 4..7
      BY <2>1
    <3>2. DatePoints(s) \in {0, 8, 6, 4, 2}
      BY <2>1, <2>2, <2>4, <3>1
    <3>3. QED
      BY <3>2
  <2>5. QED
    BY <2>3, <2>4
<1>6. QED
  BY <1>2, <1>3, <1>4, <1>5

Grounded(s) ==
  /\ Confidence(Score(s)) # "weak" =>
        AmountOk(s) /\ (s.ref # "none" \/ s.payee \/ s.name # "none")
  /\ Confidence(Score(s)) = "strong" => s.ref # "none"

\* The arithmetic of the scores.
LEMMA CandidateIsGrounded ==
  ASSUME NEW s \in Signal, Candidate(s)
  PROVE  Grounded(s)
<1> DEFINE a == IF s.account = "same" THEN 10 ELSE 0
           p == IF s.payee THEN 15 ELSE 0
<1>1. /\ a \in 0..10 /\ p \in 0..15 /\ (~s.payee => p = 0)
  OBVIOUS
<1>2. Points(s) =
        a + RefPoints(s) + AmountPoints(s) + p + NamePoints(s) + DatePoints(s)
  BY DEF Points
<1> HIDE DEF a, p
<1>3. Points(s) \in Int
  <2> DEFINE r == RefPoints(s)
             m == AmountPoints(s)
             n == NamePoints(s)
             d == DatePoints(s)
  <2>1. r \in 0..40 /\ m \in 0..40 /\ n \in 0..15 /\ d \in 0..8
    BY PointsAreBounded
  <2>2. Points(s) = a + r + m + p + n + d
    BY <1>2
  <2> HIDE DEF r, m, n, d
  <2>3. QED
    BY <1>1, <2>1, <2>2
<1>4. Score(s) \in Int /\ Score(s) <= Points(s)
      /\ (s.ref # "none" /\ ~AmountOk(s) => Score(s) <= 60)
  BY <1>3 DEF Score, AtMost
<1>5. ~AmountOk(s) => s.ref # "none"
  BY DEF Candidate
<1>6. s.ref = "none" => Points(s) < 90
  BY <1>1, <1>2, PointsAreBounded
<1>7. s.ref = "none" /\ ~s.payee /\ s.name = "none" => Points(s) < 70
  BY <1>1, <1>2, PointsAreBounded
<1>8. /\ Confidence(Score(s)) # "weak" => Score(s) >= 70
      /\ Confidence(Score(s)) = "strong" => Score(s) >= 90
  BY <1>4 DEF Confidence
<1>9. QED
  BY <1>3, <1>4, <1>5, <1>6, <1>7, <1>8 DEF Grounded

\* Whatever the comparisons of a pair say, it is called likely only on more
\* than its amount and date and never against its amount, and strong only with
\* its bank reference (scorePair).
THEOREM LikelyHasGroundsHolds == MatchingSpec => []LikelyHasGrounds
<1>1. MatchingInit /\ sample \in Signal => sample \in Signal
  OBVIOUS
<1>2. sample \in Signal /\ [MatchingNext]_matchingVars => (sample \in Signal)'
  BY DEF MatchingNext, matchingVars, ReadPayments, ReadBankRows, ReadMatches,
     InsertSuggestions, MarkSuggested, RunDies, ConfirmPair, RejectPair,
     MoveMatched, ReturnUnmatched, Review, ImportDebit
<1>3. sample \in Signal => LikelyHasGrounds
  BY CandidateIsGrounded DEF LikelyHasGrounds, Grounded
<1>4. QED
  BY <1>1, <1>2, <1>3, PTL DEF MatchingSpec

-----------------------------------------------------------------------------
(* Matching: what people decided stays *)

PairsTyped == pairs \in [Pay \X Debit -> {"none", "suggested", "confirmed", "rejected"}]

DecisionKept ==
  \A x \in Pay \X Debit :
    /\ pairs[x] = "rejected" => pairs'[x] = "rejected"
    /\ pairs[x] = "confirmed" => pairs'[x] \in {"confirmed", "rejected"}

LEMMA MatchingStep ==
  ASSUME PairsTyped, [MatchingNext]_matchingVars
  PROVE  PairsTyped' /\ DecisionKept
<1>1. CASE pairs' = pairs
  BY <1>1 DEF PairsTyped, DecisionKept
<1>2. CASE \E q \in Runner : InsertSuggestions(q)
  <2>1. PICK q \in Runner : InsertSuggestions(q)
    BY <1>2
  <2>2. PICK chunk \in SUBSET runners[q].left :
          \/ /\ \A x \in chunk : pairs[x] = "none"
             /\ pairs' = [x \in DOMAIN pairs |->
                            IF x \in chunk THEN "suggested" ELSE pairs[x]]
          \/ pairs' = pairs
    BY <2>1 DEF InsertSuggestions, MayInsertPair
  <2>3. QED
    BY <2>2 DEF PairsTyped, DecisionKept
<1>3. CASE \E x \in Pay \X Debit : ConfirmPair(x) \/ RejectPair(x)
  <2>1. PICK x \in Pay \X Debit : ConfirmPair(x) \/ RejectPair(x)
    BY <1>3
  <2>2. CASE ConfirmPair(x)
    BY <2>2 DEF ConfirmPair, PairsTyped, DecisionKept
  <2>3. CASE RejectPair(x)
    BY <2>3 DEF RejectPair, PairsTyped, DecisionKept
  <2>4. QED
    BY <2>1, <2>2, <2>3
<1>4. QED
  BY <1>1, <1>2, <1>3 DEF MatchingNext, matchingVars, ReadPayments,
     ReadBankRows, ReadMatches, MarkSuggested, RunDies, MoveMatched,
     ReturnUnmatched, Review, ImportDebit

\* A pair somebody rejected or confirmed is never suggested again, not even by
\* a run that read the matches before the decision (runMatching).
THEOREM DecidedPairStaysHolds == MatchingSpec => DecidedPairStays
<1>1. MatchingInit => PairsTyped
  BY DEF MatchingInit, PairsTyped
<1>2. QED
  BY <1>1, MatchingStep, PTL DEF MatchingSpec, DecidedPairStays, DecisionKept

-----------------------------------------------------------------------------
(* Matching: the types of its rows and of its runs *)

\* A run suggests pairs of payments and imported rows; those it has inserted
\* have a row ever since.
RunKnown(r) ==
  \/ r = NoRun
  \/ /\ DOMAIN r = {"step", "pays", "rows", "left", "chosen"}
     /\ r.step \in {"rows", "matches", "insert", "mark"}
     /\ r.pays \subseteq Pay /\ r.rows \subseteq imported
     /\ r.left \subseteq r.chosen /\ r.chosen \subseteq Pay \X imported
     /\ \A x \in r.chosen \ r.left : pairs[x] # "none"
     /\ r.step = "mark" => r.left = {}

MatchingTypes ==
  /\ MatchingTypeOK /\ imported \subseteq Debit /\ DOMAIN runners = Runner
  /\ \A q \in Runner : RunKnown(runners[q])

\* Rows that are imported and pairs that have a row remain so.
RowsRemain ==
  /\ imported \subseteq imported'
  /\ \A x \in Pay \X Debit : pairs[x] # "none" => pairs'[x] # "none"

LEMMA RunStaysKnown ==
  ASSUME MatchingTypes, RowsRemain, NEW r, RunKnown(r)
  PROVE  r = NoRun \/ RunKnown(r)'
<1>1. CASE r # NoRun
  <2>1. \A x \in r.chosen : x \in Pay \X Debit
    BY <1>1 DEF RunKnown, MatchingTypes
  <2>2. \A x \in r.chosen \ r.left : pairs'[x] # "none"
    BY <1>1, <2>1 DEF RunKnown, RowsRemain
  <2>3. r.rows \subseteq imported' /\ r.chosen \subseteq Pay \X imported'
    BY <1>1 DEF RunKnown, RowsRemain
  <2> QED BY <1>1, <2>2, <2>3 DEF RunKnown
<1> QED BY <1>1

\* One run goes on; the tables may change with it.
LEMMA RunMoves ==
  ASSUME MatchingTypes, RowsRemain, MatchingTypeOK', imported' \subseteq Debit,
         NEW q \in Runner, NEW r, r = NoRun \/ RunKnown(r)',
         runners' = [runners EXCEPT ![q] = r]
  PROVE  MatchingTypes'
<1>1. DOMAIN runners' = Runner /\ runners'[q] = r
      /\ \A o \in Runner \ {q} : runners'[o] = runners[o]
  BY DEF MatchingTypes
<1>2. ASSUME NEW o \in Runner
      PROVE  RunKnown(runners[o])'
  <2>1. CASE o = q
    BY <1>1, <2>1 DEF RunKnown
  <2>2. CASE o # q
    <3>1. PICK old : old = runners[o] /\ RunKnown(old)
      BY DEF MatchingTypes
    <3>2. old = NoRun \/ RunKnown(old)'
      BY <3>1, RunStaysKnown
    <3> QED BY <1>1, <2>2, <3>1, <3>2 DEF RunKnown
  <2> QED BY <2>1, <2>2
<1> QED BY <1>1, <1>2 DEF MatchingTypes

\* Only the tables change.
LEMMA TablesMove ==
  ASSUME MatchingTypes, RowsRemain, MatchingTypeOK', imported' \subseteq Debit,
         UNCHANGED runners
  PROVE  MatchingTypes'
<1>1. ASSUME NEW o \in Runner
      PROVE  RunKnown(runners[o])'
  <2>1. PICK old : old = runners[o] /\ RunKnown(old)
    BY DEF MatchingTypes
  <2>2. old = NoRun \/ RunKnown(old)'
    BY <2>1, RunStaysKnown
  <2> QED BY <2>1, <2>2 DEF RunKnown
<1> QED BY <1>1 DEF MatchingTypes

LEMMA RunWorks ==
  ASSUME MatchingTypes, NEW q \in Runner, runners[q] # NoRun
  PROVE  /\ DOMAIN runners[q] = {"step", "pays", "rows", "left", "chosen"}
         /\ runners[q].pays \subseteq Pay /\ runners[q].rows \subseteq imported
         /\ runners[q].left \subseteq runners[q].chosen
         /\ runners[q].chosen \subseteq Pay \X imported
         /\ runners[q].step = "mark" => runners[q].left = {}
         /\ \A x \in runners[q].chosen \ runners[q].left : pairs[x] # "none"
BY DEF MatchingTypes, RunKnown

LEMMA IdleIsNoRun ==
  ASSUME NEW r, r.step \in {"rows", "matches", "insert", "mark"}
  PROVE  r # NoRun
BY DEF NoRun

LEMMA ReadPaymentsTypes ==
  ASSUME MatchingTypes, NEW q \in Runner, ReadPayments(q)
  PROVE  MatchingTypes'
<1>0. PICK r : r = [step |-> "rows", pays |-> {p \in Pay : payStatus[p] \in EarlyPay},
                    rows |-> {}, left |-> {}, chosen |-> {}]
  OBVIOUS
<1>1. UNCHANGED <<payStatus, pairs, imported>> /\ runners' = [runners EXCEPT ![q] = r]
  BY <1>0 DEF ReadPayments
<1>2. RunKnown(r)'
  BY <1>0 DEF RunKnown
<1>3. RowsRemain /\ MatchingTypeOK' /\ imported' \subseteq Debit
  BY <1>1 DEF RowsRemain, MatchingTypes, MatchingTypeOK
<1> QED BY <1>1, <1>2, <1>3, RunMoves

LEMMA ReadBankRowsTypes ==
  ASSUME MatchingTypes, NEW q \in Runner, ReadBankRows(q)
  PROVE  MatchingTypes'
<1>1. UNCHANGED <<payStatus, pairs, imported>> /\ runners[q].step = "rows"
  BY DEF ReadBankRows
<1>2. runners[q] # NoRun
  BY <1>1, IdleIsNoRun
<1>3. PICK r : r = [runners[q] EXCEPT !.step = "matches", !.rows = imported]
  OBVIOUS
<1>4. runners' = [runners EXCEPT ![q] = r]
  BY <1>3 DEF ReadBankRows, MatchingTypes
<1>5. /\ DOMAIN r = {"step", "pays", "rows", "left", "chosen"} /\ r.step = "matches"
      /\ r.pays = runners[q].pays /\ r.rows = imported /\ r.left = runners[q].left
      /\ r.chosen = runners[q].chosen
  BY <1>2, <1>3, RunWorks
<1>6. RunKnown(r)'
  BY <1>1, <1>2, <1>5, RunWorks DEF RunKnown
<1>7. RowsRemain /\ MatchingTypeOK' /\ imported' \subseteq Debit
  BY <1>1 DEF RowsRemain, MatchingTypes, MatchingTypeOK
<1> QED BY <1>4, <1>6, <1>7, RunMoves

LEMMA ReadMatchesTypes ==
  ASSUME MatchingTypes, NEW q \in Runner, ReadMatches(q)
  PROVE  MatchingTypes'
<1>1. UNCHANGED <<payStatus, pairs, imported>> /\ runners[q].step = "matches"
  BY DEF ReadMatches
<1>2. runners[q] # NoRun
  BY <1>1, IdleIsNoRun
<1>3. PICK free, T : /\ free \subseteq runners[q].pays \X runners[q].rows
                     /\ T \in Suggestions(free)
                     /\ runners' = [runners EXCEPT ![q].left = T, ![q].chosen = T,
                          ![q].step = IF T = {} THEN "mark" ELSE "insert"]
  <2> DEFINE G == {x \in runners[q].pays \X runners[q].rows :
                    pairs[x] = "none" /\ \A y \in RowsOfMatch("confirmed") :
                                            y[1] # x[1] /\ y[2] # x[2]}
  <2>1. PICK T : /\ T \in Suggestions(G)
                 /\ runners' = [runners EXCEPT ![q].left = T, ![q].chosen = T,
                          ![q].step = IF T = {} THEN "mark" ELSE "insert"]
    BY DEF ReadMatches
  <2>2. G \subseteq runners[q].pays \X runners[q].rows
    OBVIOUS
  <2> HIDE DEF G
  <2> QED BY <2>1, <2>2
<1>4. T \subseteq free
  BY <1>3 DEF Suggestions, Scored
<1>5. PICK step : step = IF T = {} THEN "mark" ELSE "insert"
  OBVIOUS
<1>6. PICK r : r = [runners[q] EXCEPT !.left = T, !.chosen = T, !.step = step]
  OBVIOUS
<1>7. runners' = [runners EXCEPT ![q] = r]
  BY <1>3, <1>5, <1>6 DEF MatchingTypes
<1>8. /\ DOMAIN r = {"step", "pays", "rows", "left", "chosen"} /\ r.step = step
      /\ r.pays = runners[q].pays /\ r.rows = runners[q].rows /\ r.left = T
      /\ r.chosen = T
  BY <1>2, <1>6, RunWorks
<1>9. T \subseteq Pay \X imported
  BY <1>2, <1>3, <1>4, RunWorks
<1>10. RunKnown(r)'
  BY <1>1, <1>2, <1>5, <1>8, <1>9, RunWorks DEF RunKnown
<1>11. RowsRemain /\ MatchingTypeOK' /\ imported' \subseteq Debit
  BY <1>1 DEF RowsRemain, MatchingTypes, MatchingTypeOK
<1> QED BY <1>7, <1>10, <1>11, RunMoves

\* Pairs of imported rows get rows.
LEMMA PairsInserted ==
  ASSUME MatchingTypes, UNCHANGED <<payStatus, imported>>, NEW chunk,
         chunk \subseteq Pay \X imported,
         pairs' = [x \in DOMAIN pairs |-> IF x \in chunk THEN "suggested" ELSE pairs[x]]
  PROVE  RowsRemain /\ MatchingTypeOK' /\ \A x \in chunk : pairs'[x] # "none"
<1>1. DOMAIN pairs = Pay \X Debit /\ chunk \subseteq Pay \X Debit
  BY DEF MatchingTypes, MatchingTypeOK
<1>2. pairs' \in [Pay \X Debit -> {"none", "suggested", "confirmed", "rejected"}]
  BY <1>1 DEF MatchingTypes, MatchingTypeOK
<1>3. \A x \in chunk : pairs'[x] # "none"
  BY <1>1
<1>4. \A x \in Pay \X Debit : pairs[x] # "none" => pairs'[x] # "none"
  BY <1>1
<1>5. \A x \in Pay \X Debit : pairs'[x] # "none" => x[2] \in imported
  BY <1>1 DEF MatchingTypes, MatchingTypeOK
<1>6. MatchingTypeOK'
  BY <1>2, <1>4, <1>5 DEF MatchingTypes, MatchingTypeOK
<1> QED BY <1>3, <1>4, <1>6 DEF RowsRemain

LEMMA InsertSuggestionsTypes ==
  ASSUME MatchingTypes, NEW q \in Runner, InsertSuggestions(q)
  PROVE  MatchingTypes'
<1>1. UNCHANGED <<payStatus, imported>> /\ runners[q].step = "insert"
  BY DEF InsertSuggestions
<1>2. runners[q] # NoRun
  BY <1>1, IdleIsNoRun
<1>3. CASE runners' = [runners EXCEPT ![q] = NoRun] /\ UNCHANGED pairs
  <2>1. RowsRemain /\ MatchingTypeOK' /\ imported' \subseteq Debit
    BY <1>1, <1>3 DEF RowsRemain, MatchingTypes, MatchingTypeOK
  <2> QED BY <1>3, <2>1, RunMoves
<1>4. CASE \E chunk \in SUBSET runners[q].left :
             /\ pairs' = [x \in DOMAIN pairs |->
                            IF x \in chunk THEN "suggested" ELSE pairs[x]]
             /\ runners' = [runners EXCEPT ![q].left = @ \ chunk,
                    ![q].step = IF runners[q].left = chunk THEN "mark" ELSE "insert"]
  <2>1. PICK chunk \in SUBSET runners[q].left :
             /\ pairs' = [x \in DOMAIN pairs |->
                            IF x \in chunk THEN "suggested" ELSE pairs[x]]
             /\ runners' = [runners EXCEPT ![q].left = @ \ chunk,
                    ![q].step = IF runners[q].left = chunk THEN "mark" ELSE "insert"]
    BY <1>4
  <2>2. chunk \subseteq Pay \X imported
    BY <1>2, RunWorks
  <2>3. RowsRemain /\ MatchingTypeOK' /\ \A x \in chunk : pairs'[x] # "none"
    BY <1>1, <2>1, <2>2, PairsInserted
  <2>4. PICK step, left : step = (IF runners[q].left = chunk THEN "mark" ELSE "insert")
                          /\ left = runners[q].left \ chunk
    OBVIOUS
  <2>5. PICK r : r = [runners[q] EXCEPT !.left = left, !.step = step]
    OBVIOUS
  <2>6. runners' = [runners EXCEPT ![q] = r]
    BY <2>1, <2>4, <2>5 DEF MatchingTypes
  <2>7. /\ DOMAIN r = {"step", "pays", "rows", "left", "chosen"} /\ r.step = step
        /\ r.pays = runners[q].pays /\ r.rows = runners[q].rows /\ r.left = left
        /\ r.chosen = runners[q].chosen
    BY <1>2, <2>5, RunWorks
  <2>8. \A x \in r.chosen \ r.left : pairs'[x] # "none"
    <3> SUFFICES ASSUME NEW x \in r.chosen, x \notin left PROVE pairs'[x] # "none"
      BY <2>7
    <3>1. CASE x \in chunk
      BY <2>3, <3>1
    <3>2. CASE x \notin chunk
      <4>1. x \in runners[q].chosen \ runners[q].left /\ x \in Pay \X Debit
        BY <1>2, <2>4, <2>7, <3>2, RunWorks DEF MatchingTypes
      <4> QED BY <1>2, <2>3, <4>1, RunWorks DEF RowsRemain
    <3> QED BY <3>1, <3>2
  <2>9. RunKnown(r)'
    BY <1>1, <1>2, <2>4, <2>7, <2>8, RunWorks DEF RunKnown
  <2> QED BY <1>1, <2>3, <2>6, <2>9, RunMoves DEF MatchingTypes
<1> QED BY <1>3, <1>4 DEF InsertSuggestions

LEMMA MarkSuggestedTypes ==
  ASSUME MatchingTypes, NEW q \in Runner, MarkSuggested(q)
  PROVE  MatchingTypes'
<1>1. /\ UNCHANGED <<pairs, imported>> /\ runners[q].step = "mark"
      /\ runners' = [runners EXCEPT ![q] = NoRun]
      /\ payStatus' = [p \in Pay |->
           IF (\E x \in runners[q].chosen : x[1] = p) /\ payStatus[p] = "ready_for_bank_match"
           THEN "bank_match_suggested" ELSE payStatus[p]]
  BY DEF MarkSuggested
<1>2. runners[q] # NoRun
  BY <1>1, IdleIsNoRun
<1>3. \A x \in runners[q].chosen : x \in Pay \X Debit /\ pairs[x] # "none"
  BY <1>1, <1>2, RunWorks DEF MatchingTypes
<1>4. payStatus' \in [Pay -> PayStatus]
  BY <1>1 DEF MatchingTypes, MatchingTypeOK, PayStatus, EarlyPay
<1>5. ASSUME NEW p \in Pay, payStatus'[p] = "bank_match_suggested"
      PROVE  \E x \in Pay \X Debit : x[1] = p /\ pairs[x] # "none"
  BY <1>1, <1>3, <1>5 DEF MatchingTypes, MatchingTypeOK
<1>6. MatchingTypeOK' /\ RowsRemain /\ imported' \subseteq Debit
  BY <1>1, <1>4, <1>5 DEF MatchingTypes, MatchingTypeOK, RowsRemain
<1> QED BY <1>1, <1>6, RunMoves

LEMMA PeopleTypes ==
  ASSUME MatchingTypes,
         \/ \E x \in Pay \X Debit : ConfirmPair(x) \/ RejectPair(x)
         \/ \E p \in Pay : MoveMatched(p) \/ ReturnUnmatched(p) \/ Review(p)
         \/ \E b \in Debit : ImportDebit(b)
  PROVE  MatchingTypes'
<1>1. CASE \E x \in Pay \X Debit : ConfirmPair(x) \/ RejectPair(x)
  <2>1. PICK x \in Pay \X Debit : ConfirmPair(x) \/ RejectPair(x)
    BY <1>1
  <2>2. UNCHANGED <<payStatus, imported, runners>>
    BY <2>1 DEF ConfirmPair, RejectPair
  <2>3. PICK st \in {"confirmed", "rejected"} : pairs' = [pairs EXCEPT ![x] = st]
    BY <2>1 DEF ConfirmPair, RejectPair
  <2>4. x[2] \in imported
    BY <2>1 DEF ConfirmPair, RejectPair, MatchingTypes, MatchingTypeOK
  <2>5. MatchingTypeOK' /\ RowsRemain
    BY <2>2, <2>3, <2>4 DEF MatchingTypes, MatchingTypeOK, RowsRemain
  <2> QED BY <2>2, <2>5, TablesMove DEF MatchingTypes
<1>2. CASE \E p \in Pay : MoveMatched(p) \/ ReturnUnmatched(p) \/ Review(p)
  <2>1. UNCHANGED <<pairs, imported, runners>>
    BY <1>2 DEF MoveMatched, ReturnUnmatched, Review
  <2>2. PICK p \in Pay, st \in {"bank_matched", "ready_for_bank_match", "later"} :
          payStatus' = [payStatus EXCEPT ![p] = st]
    BY <1>2 DEF MoveMatched, ReturnUnmatched, Review
  <2>3. payStatus' \in [Pay -> PayStatus]
    BY <2>2 DEF MatchingTypes, MatchingTypeOK, PayStatus, EarlyPay
  <2>4. \A o \in Pay : payStatus'[o] = "bank_match_suggested"
                         => payStatus[o] = "bank_match_suggested"
    BY <2>2 DEF MatchingTypes, MatchingTypeOK
  <2>5. MatchingTypeOK' /\ RowsRemain
    BY <2>1, <2>3, <2>4 DEF MatchingTypes, MatchingTypeOK, RowsRemain
  <2> QED BY <2>1, <2>5, TablesMove DEF MatchingTypes
<1>3. CASE \E b \in Debit : ImportDebit(b)
  <2>1. UNCHANGED <<payStatus, pairs, runners>>
        /\ imported \subseteq imported' /\ imported' \subseteq Debit
    BY <1>3 DEF ImportDebit, MatchingTypes
  <2>2. MatchingTypeOK' /\ RowsRemain
    BY <2>1 DEF MatchingTypes, MatchingTypeOK, RowsRemain
  <2> QED BY <2>1, <2>2, TablesMove
<1> QED BY <1>1, <1>2, <1>3

LEMMA MatchingTypesStep ==
  ASSUME MatchingTypes, [MatchingNext]_matchingVars
  PROVE  MatchingTypes'
<1>1. CASE UNCHANGED matchingVars
  <2>1. MatchingTypeOK' /\ RowsRemain /\ UNCHANGED <<imported, runners>>
    BY <1>1 DEF matchingVars, MatchingTypes, MatchingTypeOK, RowsRemain
  <2> QED BY <2>1, TablesMove DEF MatchingTypes
<1>2. ASSUME NEW q \in Runner, RunDies(q)
      PROVE  MatchingTypes'
  <2>1. MatchingTypeOK' /\ RowsRemain /\ UNCHANGED imported
        /\ runners' = [runners EXCEPT ![q] = NoRun]
    BY <1>2 DEF RunDies, MatchingTypes, MatchingTypeOK, RowsRemain
  <2> QED BY <2>1, RunMoves DEF MatchingTypes
<1> QED BY <1>1, <1>2, ReadPaymentsTypes, ReadBankRowsTypes, ReadMatchesTypes,
           InsertSuggestionsTypes, MarkSuggestedTypes, PeopleTypes DEF MatchingNext

LEMMA MatchingTypesStart ==
  ASSUME MatchingInit
  PROVE  MatchingTypes
BY DEF MatchingInit, MatchingTypes, MatchingTypeOK, RunKnown, PayStatus, EarlyPay

\* A pair that has a row is of a bank row that is imported, and a payment for
\* which a match was suggested has a pair that says so, though the run inserts
\* the pairs chunk by chunk and marks the payments last (runMatching).
THEOREM MatchingTypeCorrect == MatchingSpec => []MatchingTypeOK
<1>1. MatchingTypes => MatchingTypeOK
  BY DEF MatchingTypes
<1> QED BY <1>1, MatchingTypesStart, MatchingTypesStep, PTL DEF MatchingSpec

-----------------------------------------------------------------------------
(* The import of card statements *)

CardConfirmed(c) == c.step \in {"start", "claim", "lookup", "row", "mark"}

\* A confirmation works on rows that passed the route's checks.
CardCallOK(c) ==
  /\ CardConfirmed(c) => RouteAllows(c.rows)
  /\ c.step \in {"start", "claim"} =>
       c = [step |-> c.step, batch |-> c.batch, rows |-> c.rows]

CardInv ==
  /\ DOMAIN cardCalls = ClaimRequest
  /\ \A q \in ClaimRequest : CardCallOK(cardCalls[q])
  /\ DOMAIN cardLines = CardLine
  /\ OnlyValidLinesImported

\* A step of one request, which leaves the lines alone.
LEMMA CardCallMoves ==
  ASSUME CardInv, NEW q \in ClaimRequest, NEW c, CardCallOK(c),
         cardCalls' = [cardCalls EXCEPT ![q] = c], UNCHANGED cardLines
  PROVE  CardInv'
<1>1. /\ DOMAIN cardCalls' = ClaimRequest /\ cardCalls'[q] = c
      /\ \A p \in ClaimRequest \ {q} : cardCalls'[p] = cardCalls[p]
  BY DEF CardInv
<1>2. \A p \in ClaimRequest : CardCallOK(cardCalls'[p])
  BY <1>1 DEF CardInv
<1>3. QED
  BY <1>1, <1>2 DEF CardInv, OnlyValidLinesImported, CardCallOK

LEMMA NoCardCallOK == CardCallOK(NoCardCall)
BY DEF NoCardCall, CardCallOK, CardConfirmed

\* The step of a confirmation goes on, its rows stay.
LEMMA CardStepMoves ==
  ASSUME CardInv, NEW q \in ClaimRequest, NEW step \in {"claim", "lookup"},
         cardCalls[q].step \in {"start", "claim"},
         cardCalls' = [cardCalls EXCEPT ![q].step = step], UNCHANGED cardLines
  PROVE  CardInv'
<1> DEFINE c == cardCalls[q]
           new == [step |-> step, batch |-> c.batch, rows |-> c.rows]
<1>1. c = [step |-> c.step, batch |-> c.batch, rows |-> c.rows]
      /\ RouteAllows(c.rows)
  BY DEF CardInv, CardCallOK, CardConfirmed
<1>2. [c EXCEPT !.step = step] = new
  BY <1>1
<1>3. cardCalls' = [cardCalls EXCEPT ![q] = new]
  BY <1>2
<1>4. CardCallOK(new)
  BY <1>1 DEF CardCallOK
<1> HIDE DEF new
<1>5. QED
  BY <1>3, <1>4, CardCallMoves

LEMMA TakeCardRowKeeps ==
  ASSUME CardInv, NEW q \in ClaimRequest, NEW fails, TakeCardRow(q, fails)
  PROVE  CardInv'
<1> DEFINE c    == cardCalls[q]
           row  == c.rows[c.at]
           skip == row.excluded \/ row.decision = "skip"
           res  == IF skip THEN "skipped" ELSE IF fails THEN "failed" ELSE "imported"
           new  == [step |-> "mark", batch |-> c.batch, rows |-> c.rows, at |-> c.at,
                    failed |-> c.failed \/ fails, as |-> res]
<1>1. /\ c.step = "row" /\ c.at \in DOMAIN c.rows
      /\ cardCalls' = [cardCalls EXCEPT ![q] = new]
      /\ cardLines' = [cardLines EXCEPT ![row.mapped] =
                         IF res = "imported" THEN @ + 1 ELSE @]
  BY DEF TakeCardRow
<1>2. RouteAllows(c.rows)
  BY <1>1 DEF CardInv, CardCallOK, CardConfirmed
<1>3. new.step = "mark" /\ new.rows = c.rows
  OBVIOUS
<1>4. CardCallOK(new)
  <2> HIDE DEF new
  <2>1. QED
    BY <1>2, <1>3 DEF CardCallOK
<1>5. res = "imported" => row.mapped \in ValidLine
  BY <1>1, <1>2 DEF RouteAllows, IsUsed
<1> HIDE DEF new, res, row
<1>6. /\ DOMAIN cardCalls' = ClaimRequest /\ cardCalls'[q] = new
      /\ \A p \in ClaimRequest \ {q} : cardCalls'[p] = cardCalls[p]
  BY <1>1 DEF CardInv
<1>7. \A p \in ClaimRequest : CardCallOK(cardCalls'[p])
  BY <1>4, <1>6 DEF CardInv
<1>8. DOMAIN cardLines' = CardLine
  BY <1>1 DEF CardInv
<1>9. ASSUME NEW x \in CardLine, cardLines'[x] > 0
      PROVE  x \in ValidLine
  <2>1. CASE x = row.mapped /\ res = "imported"
    BY <1>5, <2>1
  <2>2. CASE ~(x = row.mapped /\ res = "imported")
    BY <1>1, <1>9, <2>2 DEF CardInv, OnlyValidLinesImported
  <2>3. QED
    BY <2>1, <2>2
<1>10. QED
  BY <1>6, <1>7, <1>8, <1>9 DEF CardInv, OnlyValidLinesImported, CardCallOK

LEMMA CardStep ==
  ASSUME CardInv, [ClaimImportNext]_claimImportVars
  PROVE  CardInv'
<1>1. CASE UNCHANGED <<cardLines, cardCalls>>
  BY <1>1 DEF CardInv, OnlyValidLinesImported, CardCallOK
<1>2. ASSUME NEW q \in ClaimRequest, NEW f \in CardFile, ParseCardFile(q, f)
      PROVE  CardInv'
  <2> DEFINE c == [step |-> "batch", file |-> f,
                   known |-> {x \in CardLine : cardLines[x] > 0}]
  <2>1. CardCallOK(c)
    BY DEF CardCallOK, CardConfirmed
  <2>2. cardCalls' = [cardCalls EXCEPT ![q] = c] /\ UNCHANGED cardLines
    BY <1>2 DEF ParseCardFile
  <2> HIDE DEF c
  <2>3. QED
    BY <2>1, <2>2, CardCallMoves
<1>3. ASSUME NEW q \in ClaimRequest, NEW b \in ClaimBatch, InsertCardBatch(q, b)
      PROVE  CardInv'
  <2> DEFINE c == [step |-> "rows", batch |-> b, file |-> cardCalls[q].file,
                   known |-> cardCalls[q].known]
  <2>1. CardCallOK(c)
    BY DEF CardCallOK, CardConfirmed
  <2>2. cardCalls' = [cardCalls EXCEPT ![q] = c] /\ UNCHANGED cardLines
    BY <1>3 DEF InsertCardBatch
  <2> HIDE DEF c
  <2>3. QED
    BY <2>1, <2>2, CardCallMoves
<1>4. ASSUME NEW q \in ClaimRequest,
             InsertCardRows(q) \/ CloseCardBatch(q) \/ CardRequestDies(q)
      PROVE  CardInv'
  BY <1>4, NoCardCallOK, CardCallMoves DEF InsertCardRows, CloseCardBatch,
     CardRequestDies
<1>5. ASSUME NEW q \in ClaimRequest, ConfirmCardBatch(q)
      PROVE  CardInv'
  <2> DEFINE c == [step |-> "start", batch |-> cardScreen.batch,
                   rows |-> cardScreen.rows]
  <2>1. CardCallOK(c)
    BY <1>5 DEF CardCallOK, ConfirmCardBatch
  <2>2. cardCalls' = [cardCalls EXCEPT ![q] = c] /\ UNCHANGED cardLines
    BY <1>5 DEF ConfirmCardBatch
  <2> HIDE DEF c
  <2>3. QED
    BY <2>1, <2>2, CardCallMoves
<1>6. ASSUME NEW q \in ClaimRequest, StartCardBatch(q)
      PROVE  CardInv'
  BY <1>6, CardStepMoves DEF StartCardBatch
<1>7. ASSUME NEW q \in ClaimRequest, NEW fails \in BOOLEAN, InsertCardClaim(q, fails)
      PROVE  CardInv'
  <2>1. /\ cardCalls[q].step = "claim" /\ UNCHANGED cardLines
        /\ \/ cardCalls' = [cardCalls EXCEPT ![q] = NoCardCall]
           \/ cardCalls' = [cardCalls EXCEPT ![q].step = "lookup"]
    BY <1>7 DEF InsertCardClaim
  <2>2. QED
    BY <2>1, NoCardCallOK, CardCallMoves, CardStepMoves
<1>8. ASSUME NEW q \in ClaimRequest,
             MarkCardRow(q) \/ \E found \in BOOLEAN : LookUpCardRows(q, found)
      PROVE  CardInv'
  <2>1. PICK at, failed :
          /\ cardCalls' = [cardCalls EXCEPT ![q] = RowAt(cardCalls[q], at, failed)]
          /\ cardCalls[q].step \in {"lookup", "mark"} /\ UNCHANGED cardLines
    BY <1>8 DEF LookUpCardRows, MarkCardRow
  <2>2. CardCallOK(RowAt(cardCalls[q], at, failed))
    BY <2>1 DEF CardInv, CardCallOK, RowAt, CardConfirmed
  <2>3. QED
    BY <2>1, <2>2, CardCallMoves
<1>9. QED
  BY <1>1, <1>2, <1>3, <1>4, <1>5, <1>6, <1>7, <1>8, TakeCardRowKeeps
     DEF ClaimImportNext, claimImportVars, CorrectRow, ApplyMapping, ExcludeRow,
     DecideDuplicate, Editing

\* Only what the validation accepts becomes a claim line, whatever was
\* corrected or mapped again after the file was parsed and whichever requests
\* were interrupted (the confirm route validates the rows it was sent).
THEOREM OnlyValidLinesImportedHolds == ClaimImportSpec => []OnlyValidLinesImported
<1>1. ClaimImportInit => CardInv
  BY NoCardCallOK DEF ClaimImportInit, CardInv, OnlyValidLinesImported
<1>2. CardInv => OnlyValidLinesImported
  BY DEF CardInv
<1>3. QED
  BY <1>1, <1>2, CardStep, PTL DEF ClaimImportSpec

-----------------------------------------------------------------------------
(* The import of card statements: types *)

CardBatch == [status : CardBatchStatus, rows : Seq(CardResult)]
CardPreview == [batch : ClaimBatch, file : Seq(CardLine), rows : Seq(PreviewRow)]

\* What a parse holds, what a confirmation does before its rows, and at a row.
CardParse(c) ==
  /\ \/ c.step = "batch" /\ DOMAIN c = {"step", "file", "known"}
     \/ c.step = "rows" /\ DOMAIN c = {"step", "batch", "file", "known"} /\ c.batch \in ClaimBatch
  /\ c.file \in Seq(CardLine)
CardBegun(c) == /\ DOMAIN c = {"step", "batch", "rows"} /\ c.step \in {"start", "claim", "lookup"}
                /\ c.batch \in ClaimBatch /\ c.rows \in Seq(PreviewRow)
CardGoing(c) ==
  /\ \/ c.step = "row" /\ DOMAIN c = {"step", "batch", "rows", "at", "failed"}
     \/ c.step = "mark" /\ DOMAIN c = {"step", "batch", "rows", "at", "failed", "as"}
        /\ c.as \in CardResult
  /\ c.batch \in ClaimBatch /\ c.rows \in Seq(PreviewRow)
CardKnown(c) == c = NoCardCall \/ CardParse(c) \/ CardBegun(c) \/ CardGoing(c)

CardStores == /\ cardBatches \in [ClaimBatch -> CardBatch]
              /\ cardLines \in [CardLine -> 0..MaxImported]
              /\ cardClaims \in [ClaimBatch -> 0..MaxImported]
CardShown == \/ cardScreen = NoScreen
             \/ cardScreen \in CardPreview /\ DOMAIN cardScreen.rows = DOMAIN cardScreen.file
CardsHeld == /\ cardCalls = [q \in ClaimRequest |-> cardCalls[q]]
             /\ \A q \in ClaimRequest : CardKnown(cardCalls[q])
CardTypes == CardStores /\ CardShown /\ CardsHeld

LEMMA SequenceWith ==
  ASSUME NEW S, NEW s \in Seq(S), NEW i, NEW x \in S
  PROVE  [s EXCEPT ![i] = x] \in Seq(S) /\ DOMAIN [s EXCEPT ![i] = x] = DOMAIN s
<1>1. PICK t : t = [s EXCEPT ![i] = x]
  OBVIOUS
<1>2. DOMAIN s = 1..Len(s) /\ Len(s) \in Nat /\ \A j \in 1..Len(s) : s[j] \in S
  OBVIOUS
<1>3. t = [j \in 1..Len(s) |-> t[j]] /\ \A j \in 1..Len(s) : t[j] \in S
  BY <1>1, <1>2
<1>4. t \in [1..Len(s) -> S]
  BY <1>3
<1>5. t \in Seq(S)
  BY <1>2, <1>4
<1> QED BY <1>1, <1>2, <1>4, <1>5

\* One value for each place of a sequence.
LEMMA SequenceOver ==
  ASSUME NEW S, NEW T, NEW s \in Seq(S), NEW t, t \in [DOMAIN s -> T]
  PROVE  t \in Seq(T)
<1>1. DOMAIN s = 1..Len(s) /\ Len(s) \in Nat
  OBVIOUS
<1> QED BY <1>1

\* One more of what there are fewer of than the bound.
LEMMA OneMoreCounted ==
  ASSUME NEW S, NEW bound \in Nat, NEW counts \in [S -> 0..bound], NEW x,
         x \in S => counts[x] < bound
  PROVE  [counts EXCEPT ![x] = counts[x] + 1] \in [S -> 0..bound]
<1>1. ASSUME x \in S
      PROVE  counts[x] + 1 \in 0..bound
  <2>1. counts[x] \in 0..bound
    BY <1>1
  <2> QED BY <1>1, <2>1
<1> QED BY <1>1

LEMMA CardTypesStart ==
  ASSUME ClaimImportInit
  PROVE  CardTypes
<1>1. NoBatch \in CardBatch
  BY DEF NoBatch, CardBatch, CardBatchStatus
<1>2. 0 \in 0..MaxImported
  BY ClaimImportAssumption
<1> QED BY <1>1, <1>2 DEF ClaimImportInit, CardTypes, CardStores, CardShown, CardsHeld, CardKnown

\* A request takes up, or ends with, what it holds.
LEMMA CardHeld ==
  ASSUME CardTypes, NEW q, NEW c, CardKnown(c), cardCalls' = [cardCalls EXCEPT ![q] = c]
  PROVE  CardsHeld'
BY DEF CardTypes, CardsHeld

LEMMA NoCardIsKnown == CardKnown(NoCardCall)
BY DEF CardKnown

LEMMA CardGoesOn ==
  ASSUME CardTypes, NEW q \in ClaimRequest, cardCalls[q].step \in {"start", "claim"},
         NEW step \in {"claim", "lookup"}, cardCalls' = [cardCalls EXCEPT ![q].step = step]
  PROVE  CardsHeld'
<1>1. CardBegun(cardCalls[q])
  BY DEF CardTypes, CardsHeld, CardKnown, CardParse, CardGoing, NoCardCall
<1>2. PICK c : c = [cardCalls[q] EXCEPT !.step = step]
  OBVIOUS
<1>3. cardCalls' = [cardCalls EXCEPT ![q] = c]
  BY <1>2 DEF CardTypes, CardsHeld
<1>4. CardKnown(c)
  BY <1>1, <1>2 DEF CardKnown, CardBegun
<1> QED BY <1>3, <1>4, CardHeld

LEMMA CardStatusTyped ==
  ASSUME CardTypes, NEW b, NEW status \in CardBatchStatus,
         cardBatches' = [cardBatches EXCEPT ![b].status = status]
  PROVE  cardBatches' \in [ClaimBatch -> CardBatch]
<1>1. PICK row : row = [cardBatches[b] EXCEPT !.status = status]
  OBVIOUS
<1>2. cardBatches' = [cardBatches EXCEPT ![b] = row]
  BY <1>1 DEF CardTypes, CardStores
<1>3. b \in ClaimBatch => row \in CardBatch
  BY <1>1 DEF CardTypes, CardStores, CardBatch
<1> QED BY <1>2, <1>3 DEF CardTypes, CardStores

LEMMA CardRowsTyped ==
  ASSUME CardTypes, NEW b, NEW x, b \in ClaimBatch => x \in Seq(CardResult),
         cardBatches' = [cardBatches EXCEPT ![b].rows = x]
  PROVE  cardBatches' \in [ClaimBatch -> CardBatch]
<1>1. PICK row : row = [cardBatches[b] EXCEPT !.rows = x]
  OBVIOUS
<1>2. cardBatches' = [cardBatches EXCEPT ![b] = row]
  BY <1>1 DEF CardTypes, CardStores
<1>3. b \in ClaimBatch => row \in CardBatch
  BY <1>1 DEF CardTypes, CardStores, CardBatch
<1> QED BY <1>2, <1>3 DEF CardTypes, CardStores

LEMMA CardParseTypes ==
  ASSUME CardTypes, NEW q \in ClaimRequest,
         \/ \E f \in CardFile : ParseCardFile(q, f)
         \/ \E b \in ClaimBatch : InsertCardBatch(q, b)
         \/ InsertCardRows(q)
  PROVE  CardTypes'
<1>1. ASSUME NEW f \in CardFile, ParseCardFile(q, f)
      PROVE  CardTypes'
  <2>1. PICK known : cardCalls' = [cardCalls EXCEPT ![q] =
                       [step |-> "batch", file |-> f, known |-> known]]
    BY <1>1, Zenon DEF ParseCardFile
  <2>2. CardKnown([step |-> "batch", file |-> f, known |-> known])
    BY ClaimImportAssumption DEF CardKnown, CardParse
  <2>3. CardsHeld'
    BY <2>1, <2>2, CardHeld
  <2>4. UNCHANGED <<cardBatches, cardLines, cardClaims, cardScreen>>
    BY <1>1, Zenon DEF ParseCardFile
  <2> QED BY <2>3, <2>4 DEF CardTypes, CardStores, CardShown
<1>2. ASSUME cardCalls[q].step \in {"batch", "rows"}
      PROVE  CardParse(cardCalls[q])
  BY <1>2 DEF CardTypes, CardsHeld, CardKnown, CardBegun, CardGoing, NoCardCall
<1>3. ASSUME NEW b \in ClaimBatch, InsertCardBatch(q, b)
      PROVE  CardTypes'
  <2>1. CardParse(cardCalls[q])
    BY <1>2, <1>3 DEF InsertCardBatch
  <2>2. PICK c : c = [step |-> "rows", batch |-> b, file |-> cardCalls[q].file,
                      known |-> cardCalls[q].known]
    OBVIOUS
  <2>3. cardCalls' = [cardCalls EXCEPT ![q] = c]
    BY <1>3, <2>2 DEF InsertCardBatch
  <2>4. CardKnown(c)
    BY <2>1, <2>2 DEF CardKnown, CardParse
  <2>5. CardsHeld'
    BY <2>3, <2>4, CardHeld
  <2>6. cardBatches' \in [ClaimBatch -> CardBatch]
    BY <1>3, CardStatusTyped DEF InsertCardBatch, CardBatchStatus
  <2> QED BY <1>3, <2>5, <2>6 DEF InsertCardBatch, CardTypes, CardStores, CardShown
<1>4. CASE InsertCardRows(q)
  <2>1. CardParse(cardCalls[q]) /\ cardCalls[q].step = "rows"
    BY <1>2, <1>4 DEF InsertCardRows
  <2>2. PICK c : c = cardCalls[q]
    OBVIOUS
  <2>3. c.batch \in ClaimBatch /\ c.file \in Seq(CardLine)
    BY <2>1, <2>2 DEF CardParse
  <2>4. PICK marks : marks = [i \in DOMAIN c.file |-> "pending"]
    OBVIOUS
  <2>5. PICK seen : seen = [i \in DOMAIN c.file |-> Previewed(c.file[i], c.known)]
    OBVIOUS
  <2>6. /\ cardBatches' = [cardBatches EXCEPT ![c.batch].rows = marks]
        /\ cardScreen' = [batch |-> c.batch, file |-> c.file, rows |-> seen]
        /\ cardCalls' = [cardCalls EXCEPT ![q] = NoCardCall]
        /\ UNCHANGED <<cardLines, cardClaims>>
    BY <1>4, <2>2, <2>4, <2>5, Zenon DEF InsertCardRows
  <2>7. marks \in Seq(CardResult)
    <3>1. marks \in [DOMAIN c.file -> CardResult]
      BY <2>4 DEF CardResult
    <3> QED BY <2>3, <3>1, SequenceOver
  <2>8. ASSUME NEW i \in DOMAIN c.file
        PROVE  Previewed(c.file[i], c.known) \in PreviewRow
    <3>1. c.file[i] \in CardLine
      BY <2>3
    <3> QED BY <3>1 DEF Previewed, PreviewRow
  <2>9. seen \in Seq(PreviewRow) /\ DOMAIN seen = DOMAIN c.file
    <3>1. seen \in [DOMAIN c.file -> PreviewRow]
      BY <2>5, <2>8
    <3> QED BY <2>3, <3>1, SequenceOver
  <2>10. cardBatches' \in [ClaimBatch -> CardBatch]
    BY <2>6, <2>7, CardRowsTyped
  <2>11. CardShown'
    BY <2>3, <2>6, <2>9 DEF CardShown, CardPreview
  <2>12. CardsHeld'
    BY <2>6, NoCardIsKnown, CardHeld
  <2> QED BY <2>6, <2>10, <2>11, <2>12 DEF CardTypes, CardStores
<1> QED BY <1>1, <1>3, <1>4

LEMMA CardScreenTypes ==
  ASSUME CardTypes,
         \/ \E i \in DOMAIN cardScreen.rows :
              \/ \E x \in CardLine : CorrectRow(i, x)
              \/ \E b \in BOOLEAN : ExcludeRow(i, b)
              \/ \E d \in {"skip", "import_as_new"} : DecideDuplicate(i, d)
         \/ ApplyMapping
  PROVE  CardTypes'
<1>1. cardScreen \in CardPreview /\ DOMAIN cardScreen.rows = DOMAIN cardScreen.file
  BY DEF CorrectRow, ExcludeRow, DecideDuplicate, ApplyMapping, Editing, CardTypes, CardShown
<1>2. UNCHANGED <<cardBatches, cardLines, cardClaims, cardCalls>>
  BY Zenon DEF CorrectRow, ExcludeRow, DecideDuplicate, ApplyMapping, Editing
<1>3. ASSUME NEW seen \in Seq(PreviewRow), DOMAIN seen = DOMAIN cardScreen.rows,
             cardScreen' = [cardScreen EXCEPT !.rows = seen]
      PROVE  CardTypes'
  <2>1. CardShown'
    BY <1>1, <1>3 DEF CardShown, CardPreview
  <2> QED BY <1>2, <2>1 DEF CardTypes, CardStores, CardsHeld
<1>4. cardScreen.rows \in Seq(PreviewRow) /\ cardScreen.file \in Seq(CardLine)
  BY <1>1 DEF CardPreview
<1>5. ASSUME NEW i, NEW row \in PreviewRow,
             cardScreen' = [cardScreen EXCEPT !.rows = [cardScreen.rows EXCEPT ![i] = row]]
      PROVE  CardTypes'
  <2>1. PICK seen : seen = [cardScreen.rows EXCEPT ![i] = row]
    OBVIOUS
  <2>2. seen \in Seq(PreviewRow) /\ DOMAIN seen = DOMAIN cardScreen.rows
    BY <1>4, <2>1, SequenceWith
  <2> QED BY <1>3, <1>5, <2>1, <2>2
<1>6. ASSUME NEW i \in DOMAIN cardScreen.rows
      PROVE  cardScreen.rows[i] \in PreviewRow /\ cardScreen.file[i] \in CardLine
  BY <1>1, <1>4, <1>6
<1>7. ASSUME NEW i \in DOMAIN cardScreen.rows, NEW x \in CardLine, CorrectRow(i, x)
      PROVE  CardTypes'
  <2>1. PICK row : row = [cardScreen.rows[i] EXCEPT !.mapped = x]
    OBVIOUS
  <2>2. row \in PreviewRow
    BY <1>6, <2>1 DEF PreviewRow
  <2>3. cardScreen' = [cardScreen EXCEPT !.rows = [cardScreen.rows EXCEPT ![i] = row]]
    BY <1>7, <2>1 DEF CorrectRow
  <2> QED BY <1>5, <2>2, <2>3
<1>8. ASSUME NEW i \in DOMAIN cardScreen.rows, NEW b \in BOOLEAN, ExcludeRow(i, b)
      PROVE  CardTypes'
  <2>1. PICK row : row = [cardScreen.rows[i] EXCEPT !.excluded = b]
    OBVIOUS
  <2>2. row \in PreviewRow
    BY <1>6, <2>1 DEF PreviewRow
  <2>3. cardScreen' = [cardScreen EXCEPT !.rows = [cardScreen.rows EXCEPT ![i] = row]]
    BY <1>8, <2>1 DEF ExcludeRow
  <2> QED BY <1>5, <2>2, <2>3
<1>9. ASSUME NEW i \in DOMAIN cardScreen.rows, NEW d \in {"skip", "import_as_new"},
             DecideDuplicate(i, d)
      PROVE  CardTypes'
  <2>1. PICK row : row = [cardScreen.rows[i] EXCEPT !.decision = d]
    OBVIOUS
  <2>2. row \in PreviewRow
    BY <1>6, <2>1 DEF PreviewRow
  <2>3. cardScreen' = [cardScreen EXCEPT !.rows = [cardScreen.rows EXCEPT ![i] = row]]
    BY <1>9, <2>1 DEF DecideDuplicate
  <2> QED BY <1>5, <2>2, <2>3
<1>10. CASE ApplyMapping
  <2>1. PICK seen : seen = [i \in DOMAIN cardScreen.rows |->
                              [cardScreen.rows[i] EXCEPT !.mapped = cardScreen.file[i]]]
    OBVIOUS
  <2>2. cardScreen' = [cardScreen EXCEPT !.rows = seen]
    BY <1>10, <2>1 DEF ApplyMapping
  <2>3. ASSUME NEW i \in DOMAIN cardScreen.rows
        PROVE  seen[i] \in PreviewRow
    BY <1>6, <2>1 DEF PreviewRow
  <2>4. seen \in [DOMAIN cardScreen.rows -> PreviewRow]
    BY <2>1, <2>3
  <2>5. seen \in Seq(PreviewRow) /\ DOMAIN seen = DOMAIN cardScreen.rows
    BY <1>4, <2>4, SequenceOver
  <2> QED BY <1>3, <2>2, <2>5
<1> QED BY <1>7, <1>8, <1>9, <1>10

LEMMA CardConfirmTypes ==
  ASSUME CardTypes, NEW q \in ClaimRequest,
         \/ ConfirmCardBatch(q) \/ StartCardBatch(q)
         \/ \E found \in BOOLEAN : LookUpCardRows(q, found)
         \/ \E fails \in BOOLEAN : InsertCardClaim(q, fails)
  PROVE  CardTypes'
<1>0. ASSUME CardsHeld', UNCHANGED <<cardBatches, cardLines, cardClaims, cardScreen>>
      PROVE  CardTypes'
  BY <1>0 DEF CardTypes, CardStores, CardShown
<1>1. CASE ConfirmCardBatch(q)
  <2>1. cardScreen \in CardPreview
    BY <1>1 DEF ConfirmCardBatch, CardTypes, CardShown
  <2>2. PICK c : c = [step |-> "start", batch |-> cardScreen.batch, rows |-> cardScreen.rows]
    OBVIOUS
  <2>3. CardKnown(c)
    BY <2>1, <2>2 DEF CardKnown, CardBegun, CardPreview
  <2>4. cardCalls' = [cardCalls EXCEPT ![q] = c]
    BY <1>1, <2>2 DEF ConfirmCardBatch
  <2>5. CardsHeld'
    BY <2>3, <2>4, CardHeld
  <2> QED BY <1>0, <1>1, <2>5 DEF ConfirmCardBatch
<1>2. CASE StartCardBatch(q)
  <2>1. cardBatches' \in [ClaimBatch -> CardBatch]
    BY <1>2, CardStatusTyped DEF StartCardBatch, CardBatchStatus
  <2>2. CardsHeld'
    BY <1>2, CardGoesOn DEF StartCardBatch
  <2> QED BY <1>2, <2>1, <2>2 DEF StartCardBatch, CardTypes, CardStores, CardShown
<1>3. ASSUME NEW found \in BOOLEAN, LookUpCardRows(q, found)
      PROVE  CardTypes'
  <2>1. CardBegun(cardCalls[q])
    BY <1>3 DEF LookUpCardRows, CardTypes, CardsHeld, CardKnown, CardParse, CardGoing, NoCardCall
  <2>2. PICK at : at = IF found THEN 1 ELSE Len(cardCalls[q].rows) + 1
    OBVIOUS
  <2>3. PICK c : c = RowAt(cardCalls[q], at, ~found)
    OBVIOUS
  <2>4. CardKnown(c)
    BY <2>1, <2>3 DEF CardKnown, CardBegun, CardGoing, RowAt
  <2>5. cardCalls' = [cardCalls EXCEPT ![q] = c]
    BY <1>3, <2>2, <2>3 DEF LookUpCardRows
  <2>6. CardsHeld'
    BY <2>4, <2>5, CardHeld
  <2> QED BY <1>0, <1>3, <2>6 DEF LookUpCardRows
<1>4. ASSUME NEW fails \in BOOLEAN, InsertCardClaim(q, fails)
      PROVE  CardTypes'
  <2>1. cardCalls[q].step = "claim" /\ UNCHANGED <<cardLines, cardScreen>>
    BY <1>4, Zenon DEF InsertCardClaim
  <2>2. CASE fails
    <3>1. /\ cardBatches' = [cardBatches EXCEPT ![cardCalls[q].batch].status = "failed"]
          /\ cardCalls' = [cardCalls EXCEPT ![q] = NoCardCall] /\ UNCHANGED cardClaims
      BY <1>4, <2>2, Zenon DEF InsertCardClaim
    <3>2. cardBatches' \in [ClaimBatch -> CardBatch]
      BY <3>1, CardStatusTyped DEF CardBatchStatus
    <3> QED BY <2>1, <3>1, <3>2, NoCardIsKnown, CardHeld DEF CardTypes, CardStores, CardShown
  <2>3. CASE ~fails
    <3>1. PICK b : /\ b = cardCalls[q].batch /\ cardClaims[b] < MaxImported
                   /\ cardClaims' = [cardClaims EXCEPT ![b] = cardClaims[b] + 1]
                   /\ cardCalls' = [cardCalls EXCEPT ![q].step = "lookup"]
                   /\ UNCHANGED cardBatches
      BY <1>4, <2>3 DEF InsertCardClaim
    <3>2. cardClaims' \in [ClaimBatch -> 0..MaxImported]
      BY <3>1, ClaimImportAssumption, OneMoreCounted DEF CardTypes, CardStores
    <3>3. CardsHeld'
      BY <2>1, <3>1, CardGoesOn
    <3> QED BY <2>1, <3>1, <3>2, <3>3 DEF CardTypes, CardStores, CardShown
  <2> QED BY <2>2, <2>3
<1> QED BY <1>1, <1>2, <1>3, <1>4

LEMMA CardRowTypes ==
  ASSUME CardTypes, NEW q \in ClaimRequest,
         MarkCardRow(q) \/ \E fails \in BOOLEAN : TakeCardRow(q, fails)
  PROVE  CardTypes'
<1>1. CardGoing(cardCalls[q])
  <2>1. cardCalls[q].step \in {"row", "mark"}
    BY Zenon DEF MarkCardRow, TakeCardRow
  <2> QED BY <2>1 DEF CardTypes, CardsHeld, CardKnown, CardParse, CardBegun, NoCardCall
<1>2. PICK c : c = cardCalls[q]
  OBVIOUS
<1>3. CardGoing(c)
  BY <1>1, <1>2
<1>4. ASSUME NEW fails \in BOOLEAN, TakeCardRow(q, fails)
      PROVE  CardTypes'
  <2>1. PICK row, skip, res :
          /\ row = c.rows[c.at] /\ skip = (row.excluded \/ row.decision = "skip")
          /\ res = IF skip THEN "skipped" ELSE IF fails THEN "failed" ELSE "imported"
    OBVIOUS
  <2>2. PICK new : new = [step |-> "mark", batch |-> c.batch, rows |-> c.rows, at |-> c.at,
                          failed |-> c.failed \/ fails, as |-> res]
    OBVIOUS
  <2>3. /\ res = "imported" => cardLines[row.mapped] < MaxImported
        /\ cardLines' = [cardLines EXCEPT ![row.mapped] =
                           IF res = "imported" THEN cardLines[row.mapped] + 1
                           ELSE cardLines[row.mapped]]
        /\ cardCalls' = [cardCalls EXCEPT ![q] = new]
    BY <1>2, <1>4, <2>1, <2>2 DEF TakeCardRow
  <2>4. res \in CardResult
    BY <2>1 DEF CardResult
  <2>5. CardKnown(new)
    BY <1>3, <2>2, <2>4 DEF CardKnown, CardGoing
  <2>6. cardLines' \in [CardLine -> 0..MaxImported]
    <3>1. CASE res = "imported"
      <4>1. PICK x : x = row.mapped
        OBVIOUS
      <4>2. cardLines' = [cardLines EXCEPT ![x] = cardLines[x] + 1] /\ cardLines[x] < MaxImported
        BY <2>3, <3>1, <4>1
      <4>3. cardLines \in [CardLine -> 0..MaxImported] /\ MaxImported \in Nat
        BY ClaimImportAssumption DEF CardTypes, CardStores
      <4>4. x \in CardLine => cardLines[x] + 1 \in 0..MaxImported
        BY <4>2, <4>3
      <4> QED BY <4>2, <4>3, <4>4
    <3>2. CASE res # "imported"
      BY <2>3, <3>2 DEF CardTypes, CardStores
    <3> QED BY <3>1, <3>2
  <2>7. UNCHANGED <<cardBatches, cardClaims, cardScreen>>
    BY <1>4, Zenon DEF TakeCardRow
  <2> QED BY <2>3, <2>5, <2>6, <2>7, CardHeld DEF CardTypes, CardStores, CardShown
<1>5. CASE MarkCardRow(q)
  <2>1. c.step = "mark" /\ c.as \in CardResult /\ c.batch \in ClaimBatch
    BY <1>2, <1>3, <1>5 DEF MarkCardRow, CardGoing
  <2>2. PICK marks : marks = [cardBatches[c.batch].rows EXCEPT ![c.at] = c.as]
    OBVIOUS
  <2>3. cardBatches' = [cardBatches EXCEPT ![c.batch].rows = marks]
    BY <1>2, <1>5, <2>2 DEF MarkCardRow
  <2>4. cardBatches[c.batch].rows \in Seq(CardResult)
    BY <2>1 DEF CardTypes, CardStores, CardBatch
  <2>5. marks \in Seq(CardResult)
    BY <2>1, <2>2, <2>4, SequenceWith
  <2>6. cardBatches' \in [ClaimBatch -> CardBatch]
    BY <2>3, <2>5, CardRowsTyped
  <2>7. PICK new : new = RowAt(c, c.at + 1, c.failed)
    OBVIOUS
  <2>8. cardCalls' = [cardCalls EXCEPT ![q] = new]
    BY <1>2, <1>5, <2>7 DEF MarkCardRow
  <2>9. CardKnown(new)
    BY <1>3, <2>7 DEF CardKnown, CardGoing, RowAt
  <2>10. CardsHeld'
    BY <2>8, <2>9, CardHeld
  <2> QED BY <1>5, <2>6, <2>10 DEF MarkCardRow, CardTypes, CardStores, CardShown
<1> QED BY <1>4, <1>5

LEMMA CardTypesStep ==
  ASSUME CardTypes, [ClaimImportNext]_claimImportVars
  PROVE  CardTypes'
<1>1. CASE UNCHANGED claimImportVars
  BY <1>1 DEF claimImportVars, CardTypes, CardStores, CardShown, CardsHeld
<1>2. ASSUME NEW q \in ClaimRequest, CardRequestDies(q)
      PROVE  CardTypes'
  <2>1. CardsHeld'
    BY <1>2, NoCardIsKnown, CardHeld DEF CardRequestDies
  <2> QED BY <1>2, <2>1 DEF CardRequestDies, CardTypes, CardStores, CardShown
<1>3. ASSUME NEW q \in ClaimRequest, CloseCardBatch(q)
      PROVE  CardTypes'
  <2>1. PICK status \in {"completed_with_errors", "completed"} :
          cardBatches' = [cardBatches EXCEPT ![cardCalls[q].batch].status = status]
    BY <1>3 DEF CloseCardBatch
  <2>2. cardBatches' \in [ClaimBatch -> CardBatch]
    BY <2>1, CardStatusTyped DEF CardBatchStatus
  <2>3. CardsHeld'
    BY <1>3, NoCardIsKnown, CardHeld DEF CloseCardBatch
  <2> QED BY <1>3, <2>2, <2>3 DEF CloseCardBatch, CardTypes, CardStores, CardShown
<1>4. ASSUME NEW q \in ClaimRequest,
             \/ \E f \in CardFile : ParseCardFile(q, f)
             \/ \E b \in ClaimBatch : InsertCardBatch(q, b)
             \/ InsertCardRows(q) \/ ConfirmCardBatch(q) \/ StartCardBatch(q)
             \/ \E found \in BOOLEAN : LookUpCardRows(q, found)
             \/ MarkCardRow(q) \/ CloseCardBatch(q)
             \/ \E fails \in BOOLEAN : InsertCardClaim(q, fails) \/ TakeCardRow(q, fails)
             \/ CardRequestDies(q)
      PROVE  CardTypes'
  <2>1. CASE \/ \E f \in CardFile : ParseCardFile(q, f)
             \/ \E b \in ClaimBatch : InsertCardBatch(q, b)
             \/ InsertCardRows(q)
    BY <2>1, CardParseTypes
  <2>2. CASE \/ ConfirmCardBatch(q) \/ StartCardBatch(q)
             \/ \E found \in BOOLEAN : LookUpCardRows(q, found)
             \/ \E fails \in BOOLEAN : InsertCardClaim(q, fails)
    BY <2>2, CardConfirmTypes
  <2>3. CASE MarkCardRow(q) \/ \E fails \in BOOLEAN : TakeCardRow(q, fails)
    BY <2>3, CardRowTypes
  <2> QED BY <1>2, <1>3, <1>4, <2>1, <2>2, <2>3, Zenon
<1> QED BY <1>1, <1>4, CardScreenTypes DEF ClaimImportNext

LEMMA CardsAreTyped == CardTypes => ClaimImportTypeOK
<1> SUFFICES ASSUME CardTypes
             PROVE  ClaimImportTypeOK
  OBVIOUS
<1>1. cardScreen.rows \in Seq(PreviewRow)
  <2>1. CASE cardScreen = NoScreen
    <3>1. cardScreen.rows = << >>
      BY <2>1 DEF NoScreen
    <3>2. << >> \in Seq(PreviewRow)
      OBVIOUS
    <3> QED BY <3>1, <3>2
  <2>2. CASE cardScreen \in CardPreview
    BY <2>2 DEF CardPreview
  <2> QED BY <2>1, <2>2 DEF CardTypes, CardShown
<1>2. ASSUME NEW q \in ClaimRequest
      PROVE  cardCalls[q].step \in CardSteps
  <2>1. CardKnown(cardCalls[q])
    BY DEF CardTypes, CardsHeld
  <2> QED BY <2>1 DEF CardKnown, CardParse, CardBegun, CardGoing, NoCardCall, CardSteps
<1> QED BY <1>1, <1>2 DEF CardTypes, CardStores, CardBatch, ClaimImportTypeOK

\* Rows are corrected, mapped again and decided about while requests that may
\* end anywhere import them: the screen keeps a sequence of preview rows, and
\* what is recorded of the rows of a batch are results (the claim import page
\* and routes).
THEOREM ClaimImportTypeCorrect == ClaimImportSpec => []ClaimImportTypeOK
BY CardsAreTyped, CardTypesStart, CardTypesStep, PTL DEF ClaimImportSpec

-----------------------------------------------------------------------------
(* The claims workspace: types *)

ClaimEditor == [claim : FormClaim \cup {NewClaim}, files : SUBSET FormLine,
                removed : SUBSET FormLine, state : SaveState, lines : EditorLines]

\* A save goes on with the form it was sent, of a claim that has its header.
SavingKnown(c) ==
  \/ c = NotSaving
  \/ c \in [step : {"header"}, claim : FormClaim \cup {NewClaim}, form : ClaimEditor]
  \/ c \in [step : {"check"}, claim : FormClaim, form : ClaimEditor]
  \/ c \in [step : {"remove", "lines"}, claim : FormClaim, form : ClaimEditor,
            left : SUBSET FormLine]
  \/ c \in [step : {"uploads"}, claim : FormClaim, left : SUBSET FormLine, ok : BOOLEAN]

Stores ==
  /\ savedClaims \subseteq FormClaim
  /\ savedLines \in [FormClaim -> StoredLines] /\ listed \in [FormClaim -> StoredLines]
  /\ evidence \in [FormClaim -> [FormLine -> 0..MaxCopies]]
FormTypes == Stores /\ form \in ClaimEditor /\ SavingKnown(saving)

LEMMA FormLinesAre ==
  /\ Absent \in [is : {"absent", "new", "saved"}, text : FormText]
  /\ [is |-> "new", text |-> Blank] \in [is : {"absent", "new", "saved"}, text : FormText]
  /\ NoLine \in [rows : 0..MaxCopies, text : FormText]
  /\ NoLines \in StoredLines
BY ClaimFormAssumption DEF Absent, FormText, NoLine, NoLines, StoredLines

LEMMA FormIsFilled ==
  ASSUME NEW c \in FormClaim \cup {NewClaim}, NEW kept \in StoredLines, NEW state \in SaveState
  PROVE  /\ ClaimFormOf(c, kept, state) \in ClaimEditor
         /\ \A l \in FormLine : BlankForm(c, l, state) \in ClaimEditor
<1>1. ASSUME NEW there \in StoredLines
      PROVE  ClaimFormOf(c, there, state) \in ClaimEditor
  <2>1. [l \in FormLine |-> IF there[l].rows > 0 THEN [is |-> "saved", text |-> there[l].text]
                            ELSE Absent] \in EditorLines
    BY FormLinesAre DEF EditorLines, StoredLines
  <2> QED BY <2>1 DEF ClaimFormOf, ClaimEditor
<1>2. ASSUME NEW l \in FormLine
      PROVE  BlankForm(c, l, state) \in ClaimEditor
  <2>1. PICK f : f = ClaimFormOf(c, NoLines, state) /\ f \in ClaimEditor
    BY <1>1, FormLinesAre
  <2>2. [f.lines EXCEPT ![l] = [is |-> "new", text |-> Blank]] \in EditorLines
    BY <2>1, FormLinesAre DEF ClaimEditor, EditorLines
  <2>3. BlankForm(c, l, state)
          = [f EXCEPT !.lines = [f.lines EXCEPT ![l] = [is |-> "new", text |-> Blank]]]
    BY <2>1 DEF BlankForm
  <2> QED BY <2>1, <2>2, <2>3 DEF ClaimEditor
<1> QED BY <1>1, <1>2

LEMMA OpenedIsForm ==
  ASSUME NEW c \in FormClaim, NEW there \in StoredLines, NEW l \in FormLine
  PROVE  Opened(c, there, l) \in ClaimEditor
BY FormIsFilled DEF Opened, SaveState

\* The editor changes; a save that is under way does not.
LEMMA EditorMoves ==
  ASSUME FormTypes, UNCHANGED <<Database, saving>>, form' \in ClaimEditor,
         listed' \in [FormClaim -> StoredLines]
  PROVE  FormTypes'
BY DEF FormTypes, Stores, Database

LEMMA EditorTypes ==
  ASSUME FormTypes, NEW l \in FormLine,
         \/ \E t \in GoodText : TypeInLine(l, t)
         \/ RemoveLine(l) \/ ChooseFile(l) \/ ResetForm(l)
         \/ \E c \in FormClaim : LoadIntoForm(c, l) \/ OpenClaimPage(c, l)
  PROVE  FormTypes'
<1>0. form \in ClaimEditor /\ form.lines \in EditorLines /\ Stores
      /\ Dirty(form) \in ClaimEditor
  BY DEF FormTypes, ClaimEditor, Dirty, SaveState
<1>1. ASSUME NEW t \in GoodText, TypeInLine(l, t)
      PROVE  FormTypes'
  <2>1. PICK line : /\ line = [is |-> IF form.lines[l].is = "absent" THEN "new"
                                      ELSE form.lines[l].is, text |-> t]
                    /\ form' = [Dirty(form) EXCEPT !.lines[l] = line]
    BY <1>0, <1>1 DEF TypeInLine, Dirty, ClaimEditor
  <2>2. line \in [is : {"absent", "new", "saved"}, text : FormText]
    BY <1>0, <2>1 DEF EditorLines, FormText
  <2>3. form' \in ClaimEditor
    BY <1>0, <2>1, <2>2 DEF ClaimEditor, EditorLines
  <2> QED BY <1>0, <1>1, <2>3, EditorMoves DEF TypeInLine, Stores
<1>2. CASE RemoveLine(l)
  <2>1. PICK picked, removed :
          /\ picked \subseteq FormLine /\ removed \subseteq FormLine
          /\ form' = [Dirty(form) EXCEPT !.lines[l] = Absent, !.files = picked,
                                         !.removed = removed]
    <3>1. form' = [Dirty(form) EXCEPT !.lines[l] = Absent, !.files = form.files \ {l},
            !.removed = IF form.lines[l].is = "saved" THEN form.removed \cup {l}
                        ELSE form.removed]
      BY <1>0, <1>2 DEF RemoveLine, Dirty, ClaimEditor
    <3> QED BY <1>0, <3>1 DEF ClaimEditor
  <2>2. form' \in ClaimEditor
    BY <1>0, <2>1, FormLinesAre DEF ClaimEditor, EditorLines
  <2> QED BY <1>0, <1>2, <2>2, EditorMoves DEF RemoveLine, Stores
<1>3. CASE ChooseFile(l)
  <2>1. form' \in ClaimEditor
    BY <1>0, <1>3 DEF ChooseFile, ClaimEditor
  <2> QED BY <1>0, <1>3, <2>1, EditorMoves DEF ChooseFile, Stores
<1>4. CASE ResetForm(l)
  <2>1. form' \in ClaimEditor
    BY <1>4, FormIsFilled, FormLinesAre DEF ResetForm, SaveState
  <2> QED BY <1>0, <1>4, <2>1, EditorMoves DEF ResetForm, Stores
<1>5. ASSUME NEW c \in FormClaim, LoadIntoForm(c, l) \/ OpenClaimPage(c, l)
      PROVE  FormTypes'
  <2>1. form' \in ClaimEditor
    BY <1>0, <1>5, OpenedIsForm, FormLinesAre DEF LoadIntoForm, OpenClaimPage, Stores
  <2>2. UNCHANGED <<Database, saving>> /\ listed' \in {listed, savedLines}
    BY <1>5 DEF LoadIntoForm, OpenClaimPage
  <2> QED BY <1>0, <2>1, <2>2, EditorMoves DEF Stores
<1> QED BY <1>1, <1>2, <1>3, <1>4, <1>5

LEMMA SaveFailsTypes ==
  ASSUME FormTypes, SaveFails
  PROVE  form' \in ClaimEditor /\ saving' = NotSaving
BY DEF SaveFails, FormTypes, ClaimEditor, SaveState

LEMMA BeginSaveTypes ==
  ASSUME FormTypes, BeginSave
  PROVE  FormTypes'
<1>1. Stores' /\ form \in ClaimEditor
  BY DEF FormTypes, Stores, BeginSave, Database
<1>2. CASE SaveFails
  BY <1>1, <1>2, SaveFailsTypes DEF FormTypes, SavingKnown
<1>3. CASE /\ form' = [form EXCEPT !.state = "saving"]
           /\ saving' = [step |-> "header", claim |-> form.claim, form |-> form]
  <2>1. form' \in ClaimEditor
    BY <1>1, <1>3 DEF ClaimEditor, SaveState
  <2>2. PICK claim, f : claim = form.claim /\ f = form
    OBVIOUS
  <2>3. claim \in FormClaim \cup {NewClaim} /\ f \in ClaimEditor
    BY <1>1, <2>2 DEF ClaimEditor
  <2>4. saving' \in [step : {"header"}, claim : FormClaim \cup {NewClaim}, form : ClaimEditor]
    BY <1>3, <2>2, <2>3
  <2> QED BY <1>1, <2>1, <2>4 DEF FormTypes, SavingKnown
<1> QED BY <1>2, <1>3 DEF BeginSave

\* What a save knows by its step.
LEMMA SaveAtWork ==
  ASSUME FormTypes
  PROVE  /\ saving.step = "header" =>
              saving.claim \in FormClaim \cup {NewClaim} /\ saving.form \in ClaimEditor
         /\ saving.step \in {"check", "remove", "lines"} =>
              saving.claim \in FormClaim /\ saving.form \in ClaimEditor
         /\ saving.step \in {"remove", "lines"} =>
              saving \in [step : {"remove", "lines"}, claim : FormClaim, form : ClaimEditor,
                          left : SUBSET FormLine]
         /\ saving.step = "uploads" =>
              saving \in [step : {"uploads"}, claim : FormClaim, left : SUBSET FormLine,
                          ok : BOOLEAN]
BY DEF FormTypes, SavingKnown, NotSaving

LEMMA SaveFormHeaderTypes ==
  ASSUME FormTypes, NEW c \in FormClaim, SaveFormHeader(c)
  PROVE  FormTypes'
<1>1. /\ saving.step = "header" /\ savedClaims' \subseteq savedClaims \cup {c}
      /\ UNCHANGED <<savedLines, evidence, listed, form>>
      /\ saving' = [step |-> "check", claim |-> c, form |-> saving.form]
  BY DEF SaveFormHeader
<1>2. PICK f \in ClaimEditor : f = saving.form
  BY <1>1, SaveAtWork
<1>3. saving' \in [step : {"check"}, claim : FormClaim, form : ClaimEditor]
  BY <1>1, <1>2
<1> QED BY <1>1, <1>3 DEF FormTypes, Stores, SavingKnown

LEMMA CheckRemovedTypes ==
  ASSUME FormTypes, CheckRemoved
  PROVE  FormTypes'
<1>1. Stores' /\ saving.step = "check"
  BY DEF FormTypes, Stores, CheckRemoved, Database
<1>2. CASE SaveFails
  BY <1>1, <1>2, SaveFailsTypes DEF FormTypes, SavingKnown
<1>3. CASE saving' = Rest("remove") /\ UNCHANGED form
  <2>1. PICK f \in ClaimEditor, c \in FormClaim, left \in SUBSET FormLine :
          f = saving.form /\ c = saving.claim /\ left = Shown(saving.form.lines)
    BY <1>1, SaveAtWork DEF Shown
  <2>2. saving' = [step |-> "remove", claim |-> c, form |-> f, left |-> left]
    BY <1>3, <2>1 DEF Rest
  <2>3. saving' \in [step : {"remove", "lines"}, claim : FormClaim, form : ClaimEditor,
                     left : SUBSET FormLine]
    BY <2>2
  <2> QED BY <1>1, <1>3, <2>3 DEF FormTypes, SavingKnown
<1> QED BY <1>2, <1>3 DEF CheckRemoved

LEMMA RemoveLinesTypes ==
  ASSUME FormTypes, RemoveLines
  PROVE  FormTypes'
<1>1. /\ saving.step = "remove" /\ UNCHANGED <<savedClaims, evidence, listed, form>>
      /\ saving' = Rest("lines")
  BY DEF RemoveLines
<1>2. PICK f \in ClaimEditor, c \in FormClaim, left \in SUBSET FormLine :
        f = saving.form /\ c = saving.claim /\ left = Shown(saving.form.lines)
  BY <1>1, SaveAtWork DEF Shown
<1>3. saving' = [step |-> "lines", claim |-> c, form |-> f, left |-> left]
  BY <1>1, <1>2 DEF Rest
<1>4. saving' \in [step : {"remove", "lines"}, claim : FormClaim, form : ClaimEditor,
                   left : SUBSET FormLine]
  BY <1>3
<1>5. PICK kept : kept = [l \in FormLine |-> IF l \in saving.form.removed THEN NoLine
                                             ELSE savedLines[c][l]]
  OBVIOUS
<1>6. kept \in StoredLines
  BY <1>5, FormLinesAre DEF FormTypes, Stores, StoredLines
<1>7. savedLines' = [savedLines EXCEPT ![c] = kept]
  BY <1>2, <1>5 DEF RemoveLines, FormTypes, Stores
<1> QED BY <1>1, <1>4, <1>6, <1>7 DEF FormTypes, Stores, SavingKnown

\* A file is linked to a line.
LEMMA EvidenceGrows ==
  ASSUME Stores, NEW c \in FormClaim, NEW l \in FormLine,
         evidence[c][l] < MaxCopies, evidence' = [evidence EXCEPT ![c][l] = @ + 1]
  PROVE  evidence' \in [FormClaim -> [FormLine -> 0..MaxCopies]]
<1>1. evidence[c][l] + 1 \in 0..MaxCopies
  BY ClaimFormAssumption DEF Stores
<1>2. [evidence[c] EXCEPT ![l] = evidence[c][l] + 1] \in [FormLine -> 0..MaxCopies]
  BY <1>1 DEF Stores
<1> QED BY <1>2 DEF Stores

LEMMA SaveFormLineTypes ==
  ASSUME FormTypes, NEW l \in FormLine, SaveFormLine(l)
  PROVE  FormTypes'
<1> DEFINE line == saving.form.lines[l]
           n == savedLines[saving.claim][l].rows
           row == [rows |-> IF line.is = "new" THEN n + 1 ELSE n, text |-> line.text]
<1>1. saving.step = "lines" /\ UNCHANGED <<savedClaims, evidence, listed>>
  BY DEF SaveFormLine
<1>2. CASE SaveFails /\ UNCHANGED savedLines
  BY <1>1, <1>2, SaveFailsTypes DEF FormTypes, SavingKnown, Stores
<1>3. CASE /\ line.is = "new" => n < MaxCopies
           /\ savedLines' = [savedLines EXCEPT ![saving.claim][l] = row]
           /\ saving' = [saving EXCEPT !.left = @ \ {l}]
           /\ UNCHANGED form
  <2>1. PICK c \in FormClaim : c = saving.claim
    BY <1>1, SaveAtWork
  <2>2. line \in [is : {"absent", "new", "saved"}, text : FormText]
    BY <1>1, SaveAtWork DEF ClaimEditor, EditorLines
  <2>3. n \in 0..MaxCopies
    BY <2>1 DEF FormTypes, Stores, StoredLines
  <2>4. row \in [rows : 0..MaxCopies, text : FormText]
    <3> HIDE DEF line, n
    <3>1. (IF line.is = "new" THEN n + 1 ELSE n) \in 0..MaxCopies
      BY <1>3, <2>3, ClaimFormAssumption
    <3> QED BY <2>2, <3>1
  <2> HIDE DEF row
  <2>5. [savedLines[c] EXCEPT ![l] = row] \in StoredLines
    BY <2>4 DEF FormTypes, Stores, StoredLines
  <2>6. savedLines' \in [FormClaim -> StoredLines]
    BY <1>3, <2>1, <2>5 DEF FormTypes, Stores
  <2>7. saving' \in [step : {"remove", "lines"}, claim : FormClaim, form : ClaimEditor,
                     left : SUBSET FormLine]
    BY <1>1, <1>3, SaveAtWork
  <2> QED BY <1>1, <1>3, <2>6, <2>7 DEF FormTypes, Stores, SavingKnown
<1> QED BY <1>2, <1>3 DEF SaveFormLine

LEMMA LinesSavedTypes ==
  ASSUME FormTypes, LinesSaved
  PROVE  FormTypes'
<1>1. Stores' /\ saving.step = "lines" /\ UNCHANGED form
  BY DEF FormTypes, Stores, LinesSaved, Database
<1>2. PICK c \in FormClaim, left \in SUBSET FormLine :
        /\ c = saving.claim /\ left = saving.form.files \cap Shown(saving.form.lines)
  BY <1>1, SaveAtWork DEF ClaimEditor
<1>3. saving' = [step |-> "uploads", claim |-> c, left |-> left, ok |-> TRUE]
  BY <1>2 DEF LinesSaved
<1>4. saving' \in [step : {"uploads"}, claim : FormClaim, left : SUBSET FormLine, ok : BOOLEAN]
  BY <1>3
<1> QED BY <1>1, <1>4 DEF FormTypes, SavingKnown

LEMMA UploadLineFileTypes ==
  ASSUME FormTypes, NEW l \in FormLine, NEW fails \in BOOLEAN, UploadLineFile(l, fails)
  PROVE  FormTypes'
<1>1. saving.step = "uploads" /\ UNCHANGED <<savedClaims, savedLines, listed, form>>
  BY DEF UploadLineFile
<1>2. PICK c \in FormClaim : c = saving.claim
  BY <1>1, SaveAtWork
<1>3. evidence' \in [FormClaim -> [FormLine -> 0..MaxCopies]]
  <2>1. CASE fails
    <3>1. evidence' = [evidence EXCEPT ![c][l] = @]
      BY <1>2, <2>1 DEF UploadLineFile
    <3> QED BY <3>1 DEF FormTypes, Stores
  <2>2. CASE ~fails
    <3>1. evidence' = [evidence EXCEPT ![c][l] = @ + 1] /\ evidence[c][l] < MaxCopies
      BY <1>2, <2>2 DEF UploadLineFile
    <3> QED BY <3>1, EvidenceGrows DEF FormTypes
  <2> QED BY <2>1, <2>2
<1>4. PICK left \in SUBSET FormLine, ok \in BOOLEAN :
        saving' = [saving EXCEPT !.left = left, !.ok = ok]
  <2>1. saving' = [saving EXCEPT !.left = saving.left \ {l}, !.ok = (saving.ok /\ ~fails)]
    BY <1>1, SaveAtWork DEF UploadLineFile
  <2>2. saving.left \ {l} \in SUBSET FormLine /\ (saving.ok /\ ~fails) \in BOOLEAN
    BY <1>1, SaveAtWork
  <2> QED BY <2>1, <2>2
<1>5. saving' \in [step : {"uploads"}, claim : FormClaim, left : SUBSET FormLine, ok : BOOLEAN]
  BY <1>1, <1>4, SaveAtWork
<1> QED BY <1>1, <1>3, <1>5 DEF FormTypes, Stores, SavingKnown

LEMMA EndSaveTypes ==
  ASSUME FormTypes, NEW readable \in BOOLEAN, EndSave(readable)
  PROVE  FormTypes'
<1>1. saving.step = "uploads" /\ UNCHANGED Database /\ saving' = NotSaving
      /\ listed' \in {listed, savedLines}
  BY DEF EndSave
<1>2. PICK c \in FormClaim : c = saving.claim
  BY <1>1, SaveAtWork
<1>3. PICK state \in SaveState, picked \in SUBSET FormLine :
        form' = [(IF readable THEN ClaimFormOf(c, savedLines[c], state)
                  ELSE [form EXCEPT !.state = state, !.removed = {}]) EXCEPT !.files = picked]
  <2>1. (IF saving.ok THEN "saved" ELSE "error") \in SaveState
    BY DEF SaveState
  <2>2. (IF saving.ok THEN {} ELSE form.files) \in SUBSET FormLine
    BY DEF FormTypes, ClaimEditor
  <2> QED BY <1>2, <2>1, <2>2 DEF EndSave
<1>4. PICK next : /\ next = IF readable THEN ClaimFormOf(c, savedLines[c], state)
                            ELSE [form EXCEPT !.state = state, !.removed = {}]
                  /\ form' = [next EXCEPT !.files = picked]
  BY <1>3
<1>5. next \in ClaimEditor
  <2>1. ClaimFormOf(c, savedLines[c], state) \in ClaimEditor
    BY FormIsFilled DEF FormTypes, Stores
  <2>2. [form EXCEPT !.state = state, !.removed = {}] \in ClaimEditor
    BY DEF FormTypes, ClaimEditor
  <2> QED BY <1>4, <2>1, <2>2
<1>6. form' \in ClaimEditor
  BY <1>4, <1>5 DEF ClaimEditor
<1> QED BY <1>1, <1>6 DEF FormTypes, Stores, SavingKnown, Database

LEMMA FormTypesStep ==
  ASSUME FormTypes, [ClaimFormNext]_claimFormVars
  PROVE  FormTypes'
<1>1. CASE UNCHANGED claimFormVars
  BY <1>1 DEF claimFormVars, FormTypes, Stores
<1>2. ASSUME ReloadLists
      PROVE  FormTypes'
  BY <1>2, EditorMoves DEF ReloadLists, FormTypes, Stores
<1>3. ASSUME SaveIsRefused
      PROVE  FormTypes'
  <2>1. Stores'
    BY <1>3 DEF SaveIsRefused, FormTypes, Stores, Database
  <2> QED BY <1>3, <2>1, SaveFailsTypes DEF SaveIsRefused, FormTypes, SavingKnown
<1>4. ASSUME NEW c \in FormClaim, NEW l \in FormLine, EvidenceArrives(c, l)
      PROVE  FormTypes'
  <2>1. evidence' \in [FormClaim -> [FormLine -> 0..MaxCopies]]
    BY <1>4, EvidenceGrows DEF EvidenceArrives, FormTypes
  <2> QED BY <1>4, <2>1 DEF EvidenceArrives, FormTypes, Stores
<1> QED BY <1>1, <1>2, <1>3, <1>4, EditorTypes, BeginSaveTypes, SaveFormHeaderTypes,
           CheckRemovedTypes, RemoveLinesTypes, SaveFormLineTypes, LinesSavedTypes,
           UploadLineFileTypes, EndSaveTypes DEF ClaimFormNext

LEMMA FormTypesStart ==
  ASSUME ClaimFormInit
  PROVE  FormTypes
<1>1. form \in ClaimEditor
  <2>1. PICK l \in FormLine : form = BlankForm(NewClaim, l, "saved")
    BY DEF ClaimFormInit
  <2>2. "saved" \in SaveState
    BY DEF SaveState
  <2>3. \A k \in FormLine : BlankForm(NewClaim, k, "saved") \in ClaimEditor
    BY <2>2, FormLinesAre, FormIsFilled
  <2> QED BY <2>1, <2>3
<1>2. Stores
  BY FormLinesAre, ClaimFormAssumption DEF ClaimFormInit, Stores
<1>3. saving = NotSaving
  BY DEF ClaimFormInit
<1>4. SavingKnown(saving)
  BY <1>3 DEF SavingKnown
<1> QED BY <1>1, <1>2, <1>4 DEF FormTypes

\* Typing, opening other claims and removing lines while a save is under way
\* never give it a line without a claim, and no line is stored or linked more
\* often than the bound (claims-workspace.tsx, the claims route).
THEOREM ClaimFormTypeCorrect == ClaimFormSpec => []ClaimFormTypeOK
<1>1. FormTypes => ClaimFormTypeOK
  BY DEF FormTypes, Stores, SavingKnown, NotSaving, ClaimEditor, ClaimFormTypeOK
<1> QED BY <1>1, FormTypesStart, FormTypesStep, PTL DEF ClaimFormSpec

-----------------------------------------------------------------------------
(* The import of the old register *)

SameRow(x, y) == Same(x.id, y.id) \/ Same(x.ref, y.ref)

LEMMA SameIsSymmetric ==
  ASSUME NEW x, NEW y
  PROVE  SameRow(x, y) <=> SameRow(y, x)
BY DEF SameRow, Same

\* Two rows to be imported are never the same payment.
RowsApart(rows) ==
  \A i, j \in DOMAIN rows :
    j < i /\ rows[i].state = "new" /\ rows[j].state = "new" =>
      ~SameRow(rows[i], rows[j])

\* Nor is one of them, from the row n on, one of the payments.
RowsNew(rows, n, payments) ==
  \A i \in DOMAIN rows : n <= i /\ rows[i].state = "new" =>
    \A p \in payments : ~SameRow(rows[i], p)

IsRows(rows) == \E n \in Nat : /\ DOMAIN rows = 1..n
                               /\ Len(rows) = n

\* What a confirmation prepares from a sheet.
LEMMA PreparedRows ==
  ASSUME NEW file \in Seq(OldRow), NEW choice, NEW there
  PROVE  LET rows == PrepareRegister(file, choice, there) IN
         /\ IsRows(rows) /\ RowsApart(rows) /\ RowsNew(rows, 1, there)
<1> DEFINE mapped == [i \in DOMAIN file |-> MapRow(file[i], i, choice)]
           rows   == PrepareRegister(file, choice, there)
<1>1. rows = [i \in DOMAIN mapped |->
                IF mapped[i].state = "new" /\ Duplicate(mapped, i, there)
                THEN [mapped[i] EXCEPT !.state = "duplicate"] ELSE mapped[i]]
  BY DEF PrepareRegister
<1>2. DOMAIN mapped = 1..Len(file) /\ Len(file) \in Nat
  OBVIOUS
<1>3. ASSUME NEW i \in DOMAIN mapped
      PROVE  /\ "state" \in DOMAIN mapped[i]
             /\ [mapped[i] EXCEPT !.state = "duplicate"].state = "duplicate"
  <2>1. "state" \in DOMAIN mapped[i]
    BY DEF MapRow
  <2> HIDE DEF mapped
  <2>2. QED
    BY <2>1
<1> HIDE DEF mapped, rows
<1>4. ASSUME NEW i \in DOMAIN rows, rows[i].state = "new"
      PROVE  /\ rows[i] = mapped[i] /\ mapped[i].state = "new"
             /\ ~Duplicate(mapped, i, there)
  <2>1. i \in DOMAIN mapped
    BY <1>1
  <2>2. ~(mapped[i].state = "new" /\ Duplicate(mapped, i, there))
    <3> SUFFICES ASSUME mapped[i].state = "new" /\ Duplicate(mapped, i, there)
                 PROVE  FALSE
      OBVIOUS
    <3>1. rows[i] = [mapped[i] EXCEPT !.state = "duplicate"]
      BY <1>1, <2>1
    <3>2. QED
      BY <1>3, <1>4, <2>1, <3>1
  <2>3. rows[i] = mapped[i]
    BY <1>1, <2>1, <2>2
  <2>4. QED
    BY <1>4, <2>2, <2>3
<1>5. DOMAIN rows = 1..Len(file)
  BY <1>1, <1>2
<1>6. IsRows(rows)
  <2>1. Len(rows) = Len(file)
    BY <1>1, <1>2, <1>5
  <2>2. QED
    BY <1>2, <1>5, <2>1 DEF IsRows
<1>7. RowsApart(rows)
  <2> SUFFICES ASSUME NEW i \in DOMAIN rows, NEW j \in DOMAIN rows, j < i,
                      rows[i].state = "new", rows[j].state = "new"
               PROVE  ~SameRow(rows[i], rows[j])
    BY DEF RowsApart
  <2>1. /\ rows[i] = mapped[i] /\ ~Duplicate(mapped, i, there)
        /\ rows[j] = mapped[j] /\ mapped[j].state = "new"
    BY <1>4
  <2>2. j \in 1..(i - 1)
    BY <1>2, <1>5
  <2>3. QED
    BY <2>1, <2>2 DEF Duplicate, SameRow
<1>8. RowsNew(rows, 1, there)
  BY <1>4 DEF RowsNew, Duplicate, SameRow
<1>9. QED
  BY <1>6, <1>7, <1>8 DEF rows

CallFields == {"step", "file", "choice", "waive", "available", "rows", "at"}
Inserting(q) == oldCalls[q].step = "inserting"

OldCallOK(c) ==
  /\ c.step \in {"reading", "inserting"} => DOMAIN c = CallFields
  /\ c.step = "reading" => c.file \in Seq(OldRow) /\ c.at = 1
  /\ c.step = "inserting" =>
       IsRows(c.rows) /\ RowsApart(c.rows) /\ c.at \in Nat \ {0}

\* Only one confirmation inserts, and what it has left is not in the register.
OneInserts ==
  /\ \A q, o \in OldCall : Inserting(q) /\ Inserting(o) => q = o
  /\ \A q \in OldCall : Inserting(q) =>
       RowsNew(oldCalls[q].rows, oldCalls[q].at, oldPayments)

PaidOnce == \A p, r \in oldPayments : p # r => ~SameRow(p, r)

RegisterInv ==
  /\ DOMAIN oldCalls = OldCall
  /\ \A q \in OldCall : OldCallOK(oldCalls[q])
  /\ DOMAIN oldScreen = {"owner", "file", "waive", "rows", "choice", "waiting"}
  /\ oldScreen.file \in Seq(OldRow)
  /\ oldSeen => OneInserts /\ PaidOnce

\* A confirmation that starts, ends or dies inserts nothing.
LEMMA OldCallMoves ==
  ASSUME RegisterInv, NEW q \in OldCall, NEW c, OldCallOK(c),
         c.step # "inserting",
         oldCalls' = [oldCalls EXCEPT ![q] = c],
         UNCHANGED <<oldPayments, oldSeen>>,
         DOMAIN oldScreen' = DOMAIN oldScreen, oldScreen'.file = oldScreen.file
  PROVE  RegisterInv'
<1>1. /\ DOMAIN oldCalls' = OldCall /\ oldCalls'[q] = c
      /\ \A o \in OldCall \ {q} : oldCalls'[o] = oldCalls[o]
  BY DEF RegisterInv
<1>2. \A o \in OldCall : OldCallOK(oldCalls'[o])
  BY <1>1 DEF RegisterInv
<1>3. oldSeen' => OneInserts' /\ PaidOnce'
  BY <1>1 DEF RegisterInv, OneInserts, PaidOnce, Inserting
<1>4. QED
  BY <1>1, <1>2, <1>3 DEF RegisterInv, OldCallOK

LEMMA ReadRegisterKeeps ==
  ASSUME RegisterInv, NEW q \in OldCall, ReadRegister(q)
  PROVE  RegisterInv'
<1> DEFINE c == oldCalls[q]
           there == VisibleTo(c.available)
           rows == PrepareRegister(c.file, c.choice, there)
           x == [c EXCEPT !.step = "inserting"]
           new == [x EXCEPT !.rows = rows]
<1>1. /\ c.step = "reading" /\ UNCHANGED <<oldPayments, oldScreen>>
      /\ oldCalls' = [oldCalls EXCEPT ![q].step = "inserting", ![q].rows = rows]
      /\ oldSeen' => /\ oldSeen /\ there = oldPayments
                     /\ \A o \in OldCall : ~Inserting(o)
  BY DEF ReadRegister, Inserting
<1>2. DOMAIN c = CallFields /\ c.file \in Seq(OldRow) /\ c.at = 1
  BY <1>1 DEF RegisterInv, OldCallOK
<1>3. IsRows(rows) /\ RowsApart(rows) /\ RowsNew(rows, 1, there)
  BY <1>2, PreparedRows
<1> HIDE DEF rows, there
<1>4. oldCalls' = [oldCalls EXCEPT ![q] = new]
  BY <1>1, <1>2 DEF RegisterInv, CallFields
<1>5. DOMAIN x = CallFields /\ x.step = "inserting" /\ x.at = 1
  BY <1>2 DEF CallFields
<1> HIDE DEF x
<1>6. DOMAIN new = CallFields /\ new.step = "inserting" /\ new.rows = rows
      /\ new.at = 1
  BY <1>5 DEF CallFields
<1> HIDE DEF new
<1>7. /\ DOMAIN oldCalls' = OldCall /\ oldCalls'[q] = new
      /\ \A o \in OldCall \ {q} : oldCalls'[o] = oldCalls[o]
  BY <1>4 DEF RegisterInv
<1>8. \A o \in OldCall : OldCallOK(oldCalls'[o])
  BY <1>3, <1>6, <1>7 DEF RegisterInv, OldCallOK
<1>9. oldSeen' => OneInserts' /\ PaidOnce'
  BY <1>1, <1>3, <1>6, <1>7, ZenonT(30) DEF RegisterInv, OneInserts, PaidOnce, Inserting
<1>10. QED
  BY <1>1, <1>7, <1>8, <1>9 DEF RegisterInv, OldCallOK

LEMMA InsertOldRowKeeps ==
  ASSUME RegisterInv, NEW q \in OldCall, NEW ok \in BOOLEAN, InsertOldRow(q, ok)
  PROVE  RegisterInv'
<1> DEFINE c == oldCalls[q]
           row == c.rows[c.at]
           paid == RegisterInsert(q, c.at, row, oldScreen.owner, c.waive)
           new == [c EXCEPT !.at = c.at + 1]
<1>1. /\ Inserting(q) /\ c.at <= Len(c.rows)
      /\ UNCHANGED <<oldScreen, oldSeen>>
      /\ oldCalls' = [oldCalls EXCEPT ![q] = new]
      /\ \/ oldPayments' = oldPayments
         \/ row.state = "new" /\ oldPayments' = oldPayments \cup {paid}
  BY DEF InsertOldRow, Inserting, RegisterInv
<1>2. /\ DOMAIN c = CallFields /\ IsRows(c.rows) /\ RowsApart(c.rows)
      /\ c.at \in Nat \ {0}
  BY <1>1 DEF RegisterInv, OldCallOK, Inserting
<1>3. /\ DOMAIN new = CallFields /\ new.step = c.step /\ new.rows = c.rows
      /\ new.at = c.at + 1
  BY <1>2 DEF CallFields
<1>4. paid.id = row.id /\ paid.ref = row.ref
  BY DEF RegisterInsert
<1> HIDE DEF new, paid
<1>5. c.at \in DOMAIN c.rows
  BY <1>1, <1>2 DEF IsRows
<1>6. /\ DOMAIN oldCalls' = OldCall /\ oldCalls'[q] = new
      /\ \A o \in OldCall \ {q} : oldCalls'[o] = oldCalls[o]
  BY <1>1 DEF RegisterInv
<1>7. \A o \in OldCall : OldCallOK(oldCalls'[o])
  BY <1>1, <1>2, <1>3, <1>6 DEF RegisterInv, OldCallOK, Inserting
<1>8. ASSUME oldSeen
      PROVE  OneInserts' /\ PaidOnce'
  <2>1. /\ \A o \in OldCall : Inserting(o) => o = q
        /\ RowsNew(c.rows, c.at, oldPayments) /\ PaidOnce
    BY <1>1, <1>8 DEF RegisterInv, OneInserts
  <2>2. ASSUME row.state = "new", NEW p \in oldPayments
        PROVE  ~SameRow(paid, p) /\ ~SameRow(p, paid)
    <3>1. ~SameRow(row, p)
      BY <1>2, <1>5, <2>1, <2>2 DEF RowsNew
    <3>2. ~SameRow(paid, p)
      BY <1>4, <3>1 DEF SameRow
    <3>3. QED
      BY <3>2, SameIsSymmetric
  <2>3. PaidOnce'
    BY <1>1, <2>1, <2>2 DEF PaidOnce
  <2>4. RowsNew(c.rows, c.at + 1, oldPayments')
    <3> SUFFICES ASSUME NEW i \in DOMAIN c.rows, c.at + 1 <= i,
                        c.rows[i].state = "new", NEW p \in oldPayments'
                 PROVE  ~SameRow(c.rows[i], p)
      BY DEF RowsNew
    <3>1. i \in Nat /\ c.at < i /\ c.at <= i
      BY <1>2 DEF IsRows
    <3>2. CASE p \in oldPayments
      BY <2>1, <3>1, <3>2 DEF RowsNew
    <3>3. CASE p \notin oldPayments
      <4>1. row.state = "new" /\ p = paid
        BY <1>1, <3>3
      <4>2. ~SameRow(c.rows[i], row)
        BY <1>2, <1>5, <3>1, <4>1 DEF RowsApart
      <4>3. QED
        BY <1>4, <4>1, <4>2 DEF SameRow
    <3>4. QED
      BY <3>2, <3>3
  <2>5. \A o \in OldCall : oldCalls'[o].step = "inserting" => o = q
    BY <1>6, <2>1 DEF Inserting
  <2>6. OneInserts'
    BY <1>3, <1>6, <2>4, <2>5 DEF OneInserts, Inserting
  <2>7. QED
    BY <2>3, <2>6
<1>9. QED
  BY <1>1, <1>6, <1>7, <1>8 DEF RegisterInv, OldCallOK

\* The page chooses and previews.
LEMMA ScreenKeeps ==
  ASSUME RegisterInv, UNCHANGED <<oldPayments, oldCalls, oldSeen>>,
         DOMAIN oldScreen' = DOMAIN oldScreen, oldScreen'.file \in Seq(OldRow)
  PROVE  RegisterInv'
BY DEF RegisterInv, OldCallOK, OneInserts, PaidOnce, Inserting

LEMMA RegisterScreenKeeps ==
  ASSUME RegisterInv, RegisterScreenStep \/ RegisterAnswerLost
  PROVE  RegisterInv'
<1>1. /\ DOMAIN oldScreen = {"owner", "file", "waive", "rows", "choice", "waiting"}
      /\ oldScreen.file \in Seq(OldRow)
  BY DEF RegisterInv
<1>2. ASSUME NEW f \in OldFile, ChooseOldFile(f)
      PROVE  RegisterInv'
  <2>1. f \in Seq(OldRow)
    BY RegisterImportAssumption
  <2>2. DOMAIN oldScreen' = DOMAIN oldScreen /\ oldScreen'.file = f
    BY <1>1, <1>2 DEF ChooseOldFile
  <2>3. UNCHANGED <<oldPayments, oldCalls, oldSeen>>
    BY <1>2 DEF ChooseOldFile
  <2>4. QED
    BY <2>1, <2>2, <2>3, ScreenKeeps
<1>3. ASSUME \/ \E e \in OldEntity \cup {NoEntity} : ChooseDefault(e)
             \/ \E m \in AccountMap : ChooseAccounts(m)
             \/ TickWaive
             \/ \E i \in DOMAIN oldScreen.file :
                  \/ \E e \in OldEntity : OverrideEntity(i, e)
                  \/ \E t \in OldType : OverrideType(i, t)
             \/ \E available \in SUBSET OldEntity : PreviewRegister(available)
             \/ RegisterAnswerLost
      PROVE  RegisterInv'
  <2>1. \E field \in {"choice", "waive", "rows", "waiting"} : \E v :
          oldScreen' = [oldScreen EXCEPT ![field] = v]
    BY <1>1, <1>3 DEF ChooseDefault, ChooseAccounts, TickWaive, OverrideEntity,
       OverrideType, PreviewRegister, RegisterAnswerLost
  <2>2. DOMAIN oldScreen' = DOMAIN oldScreen /\ oldScreen'.file = oldScreen.file
    BY <1>1, <2>1
  <2>3. UNCHANGED <<oldPayments, oldCalls, oldSeen>>
    BY <1>3 DEF ChooseDefault, ChooseAccounts, TickWaive, OverrideEntity,
       OverrideType, PreviewRegister, RegisterAnswerLost
  <2>4. QED
    BY <1>1, <2>2, <2>3, ScreenKeeps
<1>4. QED
  BY <1>2, <1>3 DEF RegisterScreenStep

LEMMA RegisterStep ==
  ASSUME RegisterInv, [RegisterImportNext]_registerImportVars
  PROVE  RegisterInv'
<1>1. /\ DOMAIN oldScreen = {"owner", "file", "waive", "rows", "choice", "waiting"}
      /\ oldScreen.file \in Seq(OldRow)
  BY DEF RegisterInv
<1>2. ASSUME NEW q \in OldCall, NEW available \in SUBSET OldEntity,
             ConfirmRegister(q, available)
      PROVE  RegisterInv'
  <2> DEFINE c == [step |-> "reading", file |-> oldScreen.file,
                   choice |-> oldScreen.choice, waive |-> oldScreen.waive,
                   available |-> available, rows |-> <<>>, at |-> 1]
  <2>1. OldCallOK(c) /\ c.step = "reading"
    BY <1>1 DEF OldCallOK, CallFields
  <2>2. /\ oldCalls' = [oldCalls EXCEPT ![q] = c]
        /\ UNCHANGED <<oldPayments, oldSeen>>
        /\ oldScreen' = [oldScreen EXCEPT !.waiting = q]
    BY <1>2 DEF ConfirmRegister
  <2> HIDE DEF c
  <2>3. DOMAIN oldScreen' = DOMAIN oldScreen /\ oldScreen'.file = oldScreen.file
    BY <1>1, <2>2
  <2>4. QED
    BY <2>1, <2>2, <2>3, OldCallMoves
<1>3. ASSUME NEW q \in OldCall, FinishRegister(q) \/ RegisterCallDies(q)
      PROVE  RegisterInv'
  <2>1. OldCallOK(Ended) /\ Ended.step = "ended"
    BY DEF OldCallOK, Ended
  <2>2. /\ oldCalls' = [oldCalls EXCEPT ![q] = Ended]
        /\ UNCHANGED <<oldPayments, oldSeen>>
    BY <1>3 DEF FinishRegister, RegisterCallDies
  <2>3. DOMAIN oldScreen' = DOMAIN oldScreen /\ oldScreen'.file = oldScreen.file
    BY <1>1, <1>3 DEF FinishRegister, RegisterCallDies
  <2>4. Ended.step # "inserting"
    BY <2>1
  <2>5. QED
    BY <2>1, <2>2, <2>3, <2>4, OldCallMoves
<1>4. CASE UNCHANGED registerImportVars
  BY <1>1, <1>4, ScreenKeeps DEF registerImportVars
<1>5. QED
  BY <1>2, <1>3, <1>4, ReadRegisterKeeps, InsertOldRowKeeps, RegisterScreenKeeps
     DEF RegisterImportNext

LEMMA RegisterStart == RegisterImportInit => RegisterInv
<1> SUFFICES ASSUME RegisterImportInit PROVE RegisterInv
  OBVIOUS
<1>1. PICK owner \in BOOLEAN :
        oldScreen = [owner |-> owner, file |-> <<>>, waive |-> FALSE, rows |-> <<>>,
                     choice |-> ChoiceOf(<<>>, NoEntity, [a \in OldAccount |-> NoEntity]),
                     waiting |-> NoKey]
  BY DEF RegisterImportInit
<1>2. /\ DOMAIN oldScreen = {"owner", "file", "waive", "rows", "choice", "waiting"}
      /\ oldScreen.file = <<>>
  BY <1>1
<1>3. <<>> \in Seq(OldRow)
  OBVIOUS
<1>4. oldCalls = [q \in OldCall |-> NoOldCall] /\ NoOldCall.step = "none"
  BY DEF RegisterImportInit, NoOldCall
<1> QED BY <1>2, <1>3, <1>4 DEF RegisterImportInit, RegisterInv, OldCallOK,
           OneInserts, PaidOnce, Inserting

\* However often the same sheet, or another with the same payments, is
\* confirmed, and wherever a confirmation stopped before, no payment that has a
\* Payment ID or a reference is in the register twice, as long as every
\* confirmation read all payments and none read while another inserted
\* (confirmRegisterImport, markRegisterDuplicates).
THEOREM OldPaymentOnceHolds == RegisterImportSpec => []OldPaymentOnce
<1>1. RegisterInv => OldPaymentOnce
  BY DEF RegisterInv, PaidOnce, OldPaymentOnce, SameRow
<1> QED BY <1>1, RegisterStart, RegisterStep, PTL DEF RegisterImportSpec

-----------------------------------------------------------------------------
(* The import of the old register: types *)

EntityOrNone == OldEntity \cup {NoEntity}
OldChoice(file) ==
  [default : EntityOrNone, accounts : AccountMap,
   entity : [DOMAIN file -> EntityOrNone], type : [DOMAIN file -> OldType \cup {"none"}]]
MappedRows(rows) == \A i \in DOMAIN rows : rows[i] \in MappedRow

\* What a confirmation that runs holds.
OldCallKnown(c) ==
  /\ DOMAIN c = CallFields /\ c.step \in {"reading", "inserting"}
  /\ c.file \in OldFile \cup {<< >>} /\ c.choice \in OldChoice(c.file)
  /\ c.waive \in BOOLEAN /\ c.available \subseteq OldEntity /\ MappedRows(c.rows)
PaymentTyped(p) ==
  /\ p.entity \in OldEntity /\ p.type \in OldType
  /\ p.status \in ClosedStatus => oldScreen.owner
  /\ p.waived => oldScreen.owner
OldPage == /\ oldScreen.owner \in BOOLEAN /\ oldScreen.waive \in BOOLEAN
           /\ oldScreen.file \in OldFile \cup {<< >>} /\ MappedRows(oldScreen.rows)
           /\ oldScreen.choice \in OldChoice(oldScreen.file)
           /\ oldScreen.waiting \in OldCall \cup {NoKey}
OldCallsHeld ==
  \A q \in OldCall : oldCalls[q] \in {NoOldCall, Ended} \/ OldCallKnown(oldCalls[q])
RegisterTypes == /\ \A p \in oldPayments : PaymentTyped(p)
                 /\ OldPage /\ OldCallsHeld /\ oldSeen \in BOOLEAN

\* The entity read from a row is one there is, or none.
LEMMA InferredEntity ==
  ASSUME NEW row \in OldRow, NEW accounts \in AccountMap
  PROVE  InferEntity(row, accounts) \in EntityOrNone
<1>1. \A S : OneNamed(S) \in EntityOrNone
  BY DEF OneNamed, EntityOrNone
<1>2. PICK ofAccount : ofAccount = IF row.account = NoKey THEN NoEntity
                                   ELSE accounts[row.account]
  OBVIOUS
<1>3. ofAccount \in EntityOrNone
  BY <1>2 DEF OldRow, AccountMap, EntityOrNone
<1>4. PICK basis : basis = <<OneNamed(row.named), ofAccount, OneNamed(row.payer)>>
  OBVIOUS
<1>5. \A i \in 1..3 : basis[i] \in EntityOrNone
  BY <1>1, <1>3, <1>4
<1>6. PICK known : known = {i \in 1..3 : basis[i] # NoEntity}
  OBVIOUS
<1>7. ASSUME known # {}
      PROVE  Min(known) \in 1..3
  <2>1. known \subseteq 1..3 /\ (1 \in known \/ 2 \in known \/ 3 \in known)
    BY <1>6, <1>7
  <2>2. \E m \in known : \A i \in known : m <= i
    <3>1. CASE 1 \in known
      BY <2>1, <3>1
    <3>2. CASE 1 \notin known /\ 2 \in known
      BY <2>1, <3>2
    <3>3. CASE 1 \notin known /\ 2 \notin known
      BY <2>1, <3>3
    <3> QED BY <3>1, <3>2, <3>3
  <2>3. Min(known) \in known
    BY <2>2 DEF Min
  <2> QED BY <2>1, <2>3
<1>8. InferEntity(row, accounts) = IF known = {} THEN NoEntity ELSE basis[Min(known)]
  BY <1>2, <1>4, <1>6 DEF InferEntity
<1> QED BY <1>5, <1>7, <1>8 DEF EntityOrNone

LEMMA RowIsMapped ==
  ASSUME NEW file, NEW i \in DOMAIN file, file[i] \in OldRow, NEW choice \in OldChoice(file)
  PROVE  MapRow(file[i], i, choice) \in MappedRow
<1>1. PICK row : row = file[i]
  OBVIOUS
<1>2. row \in OldRow
  BY <1>1
<1>3. PICK inferred : inferred = InferEntity(row, choice.accounts)
  OBVIOUS
<1>4. inferred \in EntityOrNone
  BY <1>2, <1>3, InferredEntity DEF OldChoice
<1>5. choice.entity[i] \in EntityOrNone /\ choice.default \in EntityOrNone
      /\ choice.type[i] \in OldType \cup {"none"}
  BY DEF OldChoice
<1>6. InferPaymentType(row) \in OldType
  BY DEF InferPaymentType, OldType
<1>7. TargetStatus(row) \in ClosedStatus \cup {"captured", "documents_pending"}
  BY DEF TargetStatus, ClosedStatus
<1>8. \A e : NeedsAttention(row, e) \in BOOLEAN
  BY Zenon DEF NeedsAttention
<1>9. PICK empty, entity, type, state :
        /\ entity \in EntityOrNone /\ type \in OldType
        /\ state \in {"new", "invalid", "empty"}
        /\ MapRow(row, i, choice) =
             [id |-> row.id, ref |-> row.ref, entity |-> entity, type |-> type,
              target |-> TargetStatus(row), attention |-> NeedsAttention(row, empty),
              state |-> state]
  <2>1. PICK empty : empty = (row.id = NoKey /\ ~row.beneficiary /\ row.amount = "none" /\ ~row.date)
    OBVIOUS
  <2>2. PICK read : read = IF inferred = NoEntity THEN choice.default ELSE inferred
    OBVIOUS
  <2>3. PICK errors : errors = {x \in {"entity", "date", "amount"} :
                   \/ x = "entity" /\ read = NoEntity
                   \/ x = "date" /\ ~row.date /\ ~empty
                   \/ x = "amount" /\ row.amount # "positive" /\ ~empty}
    OBVIOUS
  <2>4. PICK state : state = IF empty THEN "empty" ELSE IF errors # {} THEN "invalid" ELSE "new"
    OBVIOUS
  <2>5. MapRow(row, i, choice) =
          [id |-> row.id, ref |-> row.ref,
           entity |-> IF choice.entity[i] # NoEntity THEN choice.entity[i] ELSE read,
           type |-> IF choice.type[i] # "none" THEN choice.type[i] ELSE InferPaymentType(row),
           target |-> TargetStatus(row), attention |-> NeedsAttention(row, empty),
           state |-> IF choice.entity[i] # NoEntity /\ state = "invalid" /\ errors = {"entity"}
                     THEN "new" ELSE state]
    BY <1>3, <2>1, <2>2, <2>3, <2>4 DEF MapRow
  <2>6. PICK type : type = IF choice.type[i] # "none" THEN choice.type[i] ELSE InferPaymentType(row)
    OBVIOUS
  <2>7. type \in OldType
    BY <1>5, <1>6, <2>6
  <2>8. PICK entity : entity = IF choice.entity[i] # NoEntity THEN choice.entity[i] ELSE read
    OBVIOUS
  <2>9. entity \in EntityOrNone
    BY <1>4, <1>5, <2>2, <2>8
  <2>10. PICK shown : shown = IF choice.entity[i] # NoEntity /\ state = "invalid" /\ errors = {"entity"}
                              THEN "new" ELSE state
    OBVIOUS
  <2>11. shown \in {"new", "invalid", "empty"}
    BY <2>4, <2>10
  <2>12. MapRow(row, i, choice) =
           [id |-> row.id, ref |-> row.ref, entity |-> entity, type |-> type,
            target |-> TargetStatus(row), attention |-> NeedsAttention(row, empty),
            state |-> shown]
    BY <2>5, <2>6, <2>8, <2>10
  <2> QED BY <2>7, <2>9, <2>11, <2>12
<1>10. row.id \in OldLabel /\ row.ref \in OldLabel
  BY <1>2 DEF OldRow
<1> QED BY <1>1, <1>7, <1>8, <1>9, <1>10 DEF MappedRow, EntityOrNone

LEMMA PreparedIsMapped ==
  ASSUME NEW file \in OldFile \cup {<< >>}, NEW choice \in OldChoice(file), NEW there
  PROVE  MappedRows(PrepareRegister(file, choice, there))
<1>1. PICK mapped : mapped = [i \in DOMAIN file |-> MapRow(file[i], i, choice)]
  OBVIOUS
<1>2. ASSUME NEW i \in DOMAIN file
      PROVE  mapped[i] \in MappedRow /\ [mapped[i] EXCEPT !.state = "duplicate"] \in MappedRow
  <2>1. file \in Seq(OldRow)
    BY <1>2, RegisterImportAssumption
  <2>2. file[i] \in OldRow
    BY <1>2, <2>1
  <2>3. mapped[i] \in MappedRow
    BY <1>1, <2>2, RowIsMapped
  <2> QED BY <2>3 DEF MappedRow
<1>3. PrepareRegister(file, choice, there) =
        [i \in DOMAIN mapped |-> IF mapped[i].state = "new" /\ Duplicate(mapped, i, there)
                                 THEN [mapped[i] EXCEPT !.state = "duplicate"] ELSE mapped[i]]
  BY <1>1 DEF PrepareRegister
<1>4. DOMAIN mapped = DOMAIN file
  BY <1>1
<1> QED BY <1>2, <1>3, <1>4 DEF MappedRows

\* The choices of a new file are none, and those of the page stay.
LEMMA ChoiceOfFile ==
  ASSUME NEW file, NEW default \in EntityOrNone, NEW accounts \in AccountMap
  PROVE  ChoiceOf(file, default, accounts) \in OldChoice(file)
BY DEF ChoiceOf, OldChoice, EntityOrNone

LEMMA RegisterTypesStart ==
  ASSUME RegisterImportInit
  PROVE  RegisterTypes
<1>1. [a \in OldAccount |-> NoEntity] \in AccountMap
  BY DEF AccountMap
<1>2. PICK owner \in BOOLEAN :
        oldScreen = [owner |-> owner, file |-> <<>>, waive |-> FALSE, rows |-> <<>>,
                     choice |-> ChoiceOf(<<>>, NoEntity, [a \in OldAccount |-> NoEntity]),
                     waiting |-> NoKey]
  BY DEF RegisterImportInit
<1>3. ChoiceOf(<<>>, NoEntity, [a \in OldAccount |-> NoEntity]) \in OldChoice(<<>>)
  BY <1>1, ChoiceOfFile DEF EntityOrNone
<1>4. OldPage
  BY <1>2, <1>3 DEF OldPage, MappedRows
<1>5. OldCallsHeld
  BY DEF RegisterImportInit, OldCallsHeld
<1> QED BY <1>4, <1>5 DEF RegisterImportInit, RegisterTypes

\* The page is written; who it is for stays.
LEMMA PageTyped ==
  ASSUME RegisterTypes, OldPage', oldScreen'.owner = oldScreen.owner,
         UNCHANGED <<oldPayments, oldCalls, oldSeen>>
  PROVE  RegisterTypes'
BY DEF RegisterTypes, PaymentTyped, OldCallsHeld

LEMMA RegisterScreenTypes ==
  ASSUME RegisterInv, RegisterTypes, RegisterScreenStep \/ RegisterAnswerLost
  PROVE  RegisterTypes'
<1>0. DOMAIN oldScreen = {"owner", "file", "waive", "rows", "choice", "waiting"} /\ OldPage
  BY DEF RegisterInv, RegisterTypes
<1>1. ASSUME NEW choice \in OldChoice(oldScreen.file),
             oldScreen' = [oldScreen EXCEPT !.choice = choice],
             UNCHANGED <<oldPayments, oldCalls, oldSeen>>
      PROVE  RegisterTypes'
  <2>1. OldPage' /\ oldScreen'.owner = oldScreen.owner
    BY <1>0, <1>1 DEF OldPage
  <2> QED BY <1>1, <2>1, PageTyped
<1>2. oldScreen.choice \in OldChoice(oldScreen.file)
  BY <1>0 DEF OldPage
<1>3. ASSUME NEW f \in OldFile, ChooseOldFile(f)
      PROVE  RegisterTypes'
  <2>1. PICK choice : choice = ChoiceOf(f, oldScreen.choice.default, oldScreen.choice.accounts)
    OBVIOUS
  <2>2. choice \in OldChoice(f)
    BY <1>2, <2>1, ChoiceOfFile DEF OldChoice
  <2>3. oldScreen' = [oldScreen EXCEPT !.file = f, !.rows = <<>>, !.choice = choice]
    BY <1>0, <1>3, <2>1 DEF ChooseOldFile
  <2>4. OldPage' /\ oldScreen'.owner = oldScreen.owner
    BY <1>0, <2>2, <2>3 DEF OldPage, MappedRows
  <2> QED BY <1>3, <2>4, PageTyped DEF ChooseOldFile
<1>4. ASSUME NEW e \in OldEntity \cup {NoEntity}, ChooseDefault(e)
      PROVE  RegisterTypes'
  <2>1. PICK choice : choice = [oldScreen.choice EXCEPT !.default = e]
    OBVIOUS
  <2>2. choice \in OldChoice(oldScreen.file)
    BY <1>2, <2>1 DEF OldChoice, EntityOrNone
  <2>3. oldScreen' = [oldScreen EXCEPT !.choice = choice]
    BY <1>0, <1>4, <2>1 DEF ChooseDefault
  <2> QED BY <1>1, <1>4, <2>2, <2>3 DEF ChooseDefault
<1>5. ASSUME NEW m \in AccountMap, ChooseAccounts(m)
      PROVE  RegisterTypes'
  <2>1. PICK choice : choice = [oldScreen.choice EXCEPT !.accounts = m]
    OBVIOUS
  <2>2. choice \in OldChoice(oldScreen.file)
    BY <1>2, <2>1 DEF OldChoice
  <2>3. oldScreen' = [oldScreen EXCEPT !.choice = choice]
    BY <1>0, <1>5, <2>1 DEF ChooseAccounts
  <2> QED BY <1>1, <1>5, <2>2, <2>3 DEF ChooseAccounts
<1>6. CASE TickWaive
  <2>1. oldScreen' = [oldScreen EXCEPT !.waive = ~oldScreen.waive]
    BY <1>6 DEF TickWaive
  <2>2. OldPage' /\ oldScreen'.owner = oldScreen.owner
    BY <1>0, <2>1 DEF OldPage
  <2> QED BY <1>6, <2>2, PageTyped DEF TickWaive
<1>7. ASSUME NEW i \in DOMAIN oldScreen.file, NEW e \in OldEntity, OverrideEntity(i, e)
      PROVE  RegisterTypes'
  <2>1. PICK entities : entities = [oldScreen.choice.entity EXCEPT ![i] = e]
    OBVIOUS
  <2>2. PICK choice : choice = [oldScreen.choice EXCEPT !.entity = entities]
    OBVIOUS
  <2>3. entities \in [DOMAIN oldScreen.file -> EntityOrNone]
    BY <1>2, <2>1 DEF OldChoice, EntityOrNone
  <2>4. choice \in OldChoice(oldScreen.file)
    BY <1>2, <2>2, <2>3 DEF OldChoice
  <2>5. oldScreen' = [oldScreen EXCEPT !.choice = choice]
    BY <1>0, <1>7, <2>1, <2>2 DEF OverrideEntity
  <2> QED BY <1>1, <1>7, <2>4, <2>5 DEF OverrideEntity
<1>8. ASSUME NEW i \in DOMAIN oldScreen.file, NEW t \in OldType, OverrideType(i, t)
      PROVE  RegisterTypes'
  <2>1. PICK types : types = [oldScreen.choice.type EXCEPT ![i] = t]
    OBVIOUS
  <2>2. PICK choice : choice = [oldScreen.choice EXCEPT !.type = types]
    OBVIOUS
  <2>3. types \in [DOMAIN oldScreen.file -> OldType \cup {"none"}]
    BY <1>2, <2>1 DEF OldChoice
  <2>4. choice \in OldChoice(oldScreen.file)
    BY <1>2, <2>2, <2>3 DEF OldChoice
  <2>5. oldScreen' = [oldScreen EXCEPT !.choice = choice]
    BY <1>0, <1>8, <2>1, <2>2 DEF OverrideType
  <2> QED BY <1>1, <1>8, <2>4, <2>5 DEF OverrideType
<1>9. ASSUME NEW available \in SUBSET OldEntity, PreviewRegister(available)
      PROVE  RegisterTypes'
  <2>1. PICK mapped : mapped =
          PrepareRegister(oldScreen.file, oldScreen.choice, VisibleTo(available))
    OBVIOUS
  <2>2. MappedRows(mapped)
    BY <1>0, <2>1, PreparedIsMapped DEF OldPage
  <2>3. oldScreen' = [oldScreen EXCEPT !.rows = mapped]
    BY <1>9, <2>1 DEF PreviewRegister
  <2>4. OldPage' /\ oldScreen'.owner = oldScreen.owner
    BY <1>0, <2>2, <2>3 DEF OldPage
  <2> QED BY <1>9, <2>4, PageTyped DEF PreviewRegister
<1>10. CASE RegisterAnswerLost
  <2>1. oldScreen' = [oldScreen EXCEPT !.waiting = NoKey]
    BY <1>10 DEF RegisterAnswerLost
  <2>2. OldPage' /\ oldScreen'.owner = oldScreen.owner
    BY <1>0, <2>1 DEF OldPage
  <2> QED BY <1>10, <2>2, PageTyped DEF RegisterAnswerLost
<1> QED BY <1>3, <1>4, <1>5, <1>6, <1>7, <1>8, <1>9, <1>10 DEF RegisterScreenStep

\* A confirmation goes on or ends; the page at most stops waiting for it.
LEMMA OldCallTyped ==
  ASSUME RegisterInv, RegisterTypes, NEW q \in OldCall, NEW c,
         c \in {NoOldCall, Ended} \/ OldCallKnown(c),
         oldCalls' = [oldCalls EXCEPT ![q] = c]
  PROVE  OldCallsHeld'
<1>1. /\ oldCalls'[q] = c
      /\ \A o \in OldCall \ {q} : oldCalls'[o] = oldCalls[o]
  BY DEF RegisterInv
<1> QED BY <1>1 DEF RegisterTypes, OldCallsHeld

LEMMA RegisterCallTypes ==
  ASSUME RegisterInv, RegisterTypes, NEW q \in OldCall,
         \/ \E available \in SUBSET OldEntity : ConfirmRegister(q, available)
         \/ ReadRegister(q) \/ FinishRegister(q) \/ RegisterCallDies(q)
         \/ \E ok \in BOOLEAN : InsertOldRow(q, ok)
  PROVE  RegisterTypes'
<1>0. /\ DOMAIN oldScreen = {"owner", "file", "waive", "rows", "choice", "waiting"}
      /\ OldPage /\ OldCallOK(oldCalls[q])
      /\ oldCalls[q] \in {NoOldCall, Ended} \/ OldCallKnown(oldCalls[q])
  BY DEF RegisterInv, RegisterTypes, OldCallsHeld
<1>1. ASSUME OldPage', oldScreen'.owner = oldScreen.owner, OldCallsHeld',
             UNCHANGED <<oldPayments, oldSeen>>
      PROVE  RegisterTypes'
  BY <1>1 DEF RegisterTypes, PaymentTyped
<1>2. ASSUME NEW available \in SUBSET OldEntity, ConfirmRegister(q, available)
      PROVE  RegisterTypes'
  <2>1. PICK c : c = [step |-> "reading", file |-> oldScreen.file, choice |-> oldScreen.choice,
                      waive |-> oldScreen.waive, available |-> available,
                      rows |-> <<>>, at |-> 1]
    OBVIOUS
  <2>2. OldCallKnown(c)
    BY <1>0, <2>1 DEF OldCallKnown, CallFields, OldPage, MappedRows
  <2>3. /\ oldCalls' = [oldCalls EXCEPT ![q] = c]
        /\ oldScreen' = [oldScreen EXCEPT !.waiting = q]
        /\ UNCHANGED <<oldPayments, oldSeen>>
    BY <1>2, <2>1 DEF ConfirmRegister
  <2>4. OldPage' /\ oldScreen'.owner = oldScreen.owner
    BY <1>0, <2>3 DEF OldPage
  <2> QED BY <1>1, <2>2, <2>3, <2>4, OldCallTyped
<1>3. CASE FinishRegister(q) \/ RegisterCallDies(q)
  <2>1. oldCalls' = [oldCalls EXCEPT ![q] = Ended] /\ UNCHANGED <<oldPayments, oldSeen>>
    BY <1>3, Zenon DEF FinishRegister, RegisterCallDies
  <2>2. OldPage' /\ oldScreen'.owner = oldScreen.owner
    <3>1. CASE FinishRegister(q)
      <4>1. \/ oldScreen' = oldScreen
            \/ oldScreen' = [oldScreen EXCEPT !.rows = <<>>, !.waiting = NoKey]
        BY <3>1 DEF FinishRegister
      <4>2. CASE oldScreen' = oldScreen
        BY <1>0, <4>2 DEF OldPage, MappedRows
      <4>3. CASE oldScreen' = [oldScreen EXCEPT !.rows = <<>>, !.waiting = NoKey]
        <5>1. MappedRows(<<>>)
          BY DEF MappedRows
        <5> QED BY <1>0, <4>3, <5>1 DEF OldPage
      <4> QED BY <4>1, <4>2, <4>3
    <3>2. CASE RegisterCallDies(q)
      <4>1. PICK w : w = IF oldScreen.waiting = q THEN NoKey ELSE oldScreen.waiting
        OBVIOUS
      <4>2. oldScreen' = [oldScreen EXCEPT !.waiting = w]
        BY <3>2, <4>1 DEF RegisterCallDies
      <4>3. w \in OldCall \cup {NoKey}
        BY <1>0, <4>1 DEF OldPage
      <4> QED BY <1>0, <4>2, <4>3 DEF OldPage
    <3> QED BY <1>3, <3>1, <3>2
  <2> QED BY <1>1, <2>1, <2>2, OldCallTyped
<1>4. CASE ReadRegister(q)
  <2>1. OldCallKnown(oldCalls[q])
    BY <1>0, <1>4 DEF ReadRegister, NoOldCall, Ended
  <2>2. PICK mapped : mapped = PrepareRegister(oldCalls[q].file, oldCalls[q].choice,
                                               VisibleTo(oldCalls[q].available))
    OBVIOUS
  <2>3. MappedRows(mapped)
    BY <2>1, <2>2, PreparedIsMapped DEF OldCallKnown
  <2>4. PICK c : c = [oldCalls[q] EXCEPT !.step = "inserting", !.rows = mapped]
    OBVIOUS
  <2>5. OldCallKnown(c)
    BY <2>1, <2>3, <2>4 DEF OldCallKnown, CallFields
  <2>6. oldCalls' = [oldCalls EXCEPT ![q] = c] /\ UNCHANGED <<oldPayments, oldScreen>>
    BY <1>4, <2>2, <2>4 DEF ReadRegister, RegisterInv
  <2>7. oldSeen' \in BOOLEAN
    BY <1>4, Zenon DEF ReadRegister
  <2> QED BY <2>5, <2>6, <2>7, OldCallTyped DEF RegisterTypes, PaymentTyped, OldPage
<1>5. ASSUME NEW ok \in BOOLEAN, InsertOldRow(q, ok)
      PROVE  RegisterTypes'
  <2>1. OldCallKnown(oldCalls[q])
    BY <1>0, <1>5, SMTT(20) DEF InsertOldRow, NoOldCall, Ended
  <2>2. PICK c : c = oldCalls[q]
    OBVIOUS
  <2>3. PICK row, paid : row = c.rows[c.at]
                         /\ paid = RegisterInsert(q, c.at, row, oldScreen.owner, c.waive)
    OBVIOUS
  <2>4. /\ c.step = "inserting" /\ c.at <= Len(c.rows) /\ UNCHANGED <<oldScreen, oldSeen>>
        /\ \/ oldPayments' = oldPayments
           \/ row.entity \in c.available /\ oldPayments' = oldPayments \cup {paid}
        /\ oldCalls' = [oldCalls EXCEPT ![q] = [c EXCEPT !.at = c.at + 1]]
    BY <1>5, <2>2, <2>3 DEF InsertOldRow, RegisterInv
  <2>5. c.at \in DOMAIN c.rows
    BY <1>0, <2>2, <2>4 DEF OldCallOK, IsRows
  <2>6. row \in MappedRow /\ c.available \subseteq OldEntity
    BY <2>1, <2>2, <2>3, <2>5 DEF OldCallKnown, MappedRows
  <2>7. ASSUME row.entity \in c.available
        PROVE  PaymentTyped(paid)
    BY <2>3, <2>6, <2>7 DEF PaymentTyped, RegisterInsert, MappedRow, ClosedStatus
  <2>8. \A p \in oldPayments' : PaymentTyped(p)
    BY <2>4, <2>7 DEF RegisterTypes
  <2>9. PICK new : new = [c EXCEPT !.at = c.at + 1]
    OBVIOUS
  <2>10. OldCallKnown(new)
    BY <2>1, <2>2, <2>9 DEF OldCallKnown, CallFields
  <2>11. OldCallsHeld'
    BY <2>4, <2>9, <2>10, OldCallTyped
  <2> QED BY <2>4, <2>8, <2>11 DEF RegisterTypes, PaymentTyped, OldPage
<1> QED BY <1>2, <1>3, <1>4, <1>5

LEMMA RegisterTypesStep ==
  ASSUME RegisterInv, RegisterTypes, [RegisterImportNext]_registerImportVars
  PROVE  RegisterTypes'
<1>1. CASE UNCHANGED registerImportVars
  BY <1>1 DEF registerImportVars, RegisterTypes, PaymentTyped, OldPage, OldCallsHeld
<1> QED BY <1>1, RegisterScreenTypes, RegisterCallTypes DEF RegisterImportNext

LEMMA RegisterIsTyped == RegisterTypes => RegisterImportTypeOK
<1> SUFFICES ASSUME RegisterTypes
             PROVE  RegisterImportTypeOK
  OBVIOUS
<1>1. \A q \in OldCall : oldCalls[q].step \in {"none", "reading", "inserting", "ended"}
  BY DEF RegisterTypes, OldCallsHeld, OldCallKnown, NoOldCall, Ended
<1> QED BY <1>1 DEF RegisterTypes, PaymentTyped, OldPage, MappedRows, RegisterImportTypeOK

\* Whatever is chosen on the page while confirmations run: a payment goes only
\* to an entity the caller has access to and with a known type, and only the
\* Owner or a Finance Manager imports one as closed, or waives its documents
\* (confirmRegisterImport, and the page that calls it).
THEOREM RegisterImportTypeCorrect == RegisterImportSpec => []RegisterImportTypeOK
<1>1. RegisterImportInit => RegisterInv /\ RegisterTypes
  BY RegisterStart, RegisterTypesStart
<1>2. RegisterInv /\ RegisterTypes /\ [RegisterImportNext]_registerImportVars
        => RegisterInv' /\ RegisterTypes'
  BY RegisterStep, RegisterTypesStep
<1> QED BY <1>1, <1>2, RegisterIsTyped, PTL DEF RegisterImportSpec

-----------------------------------------------------------------------------
(* The import of suppliers *)

\* What a discarded batch has made is of rows that are there still, and all its
\* rows arrived after the discard.
DiscardedIsLate(b) ==
  sbatches[b].discarded =>
    /\ sbatches[b].status # "none"
    /\ \A br \in DOMAIN srows : br[1] = b => srows[br].late
    /\ \A s \in suppliers : s.row = Typed \/ s.row[1] # b \/ s.row \in DOMAIN srows
    /\ \A o \in owed : o.row[1] # b \/ o.row \in DOMAIN srows

SupplierInv ==
  /\ DOMAIN sbatches = SBatch
  /\ \A b \in SBatch : DOMAIN sbatches[b] = {"status", "discarded"}
  /\ \A br \in DOMAIN srows : "late" \in DOMAIN srows[br]
  /\ \A b \in SBatch : DiscardedIsLate(b)

\* The rows stay, and with them whether they arrived late.
RowsStay ==
  /\ DOMAIN srows' = DOMAIN srows
  /\ \A br \in DOMAIN srows : "late" \in DOMAIN srows'[br] /\ srows'[br].late = srows[br].late

LEMMA MarkedRowsStay ==
  ASSUME SupplierInv, NEW br, NEW result, NEW supplier, NEW obligation,
         MarkSRow(br, result, supplier, obligation) \/ srows' = srows
  PROVE  RowsStay
<1>1. CASE srows' = srows
  BY <1>1 DEF RowsStay, SupplierInv
<1>2. CASE /\ br \in DOMAIN srows
           /\ srows' = [srows EXCEPT ![br] =
                [@ EXCEPT !.result = result, !.supplier = supplier, !.obligation = obligation]]
  <2>1. PICK row : /\ row = [srows[br] EXCEPT !.result = result, !.supplier = supplier,
                                              !.obligation = obligation]
                   /\ srows' = [srows EXCEPT ![br] = row]
    BY <1>2
  <2>2. "late" \in DOMAIN row /\ row.late = srows[br].late
    BY <1>2, <2>1 DEF SupplierInv
  <2> QED BY <1>2, <2>1, <2>2 DEF RowsStay, SupplierInv
<1> QED BY <1>1, <1>2 DEF MarkSRow

LEMMA BatchesStay ==
  ASSUME SupplierInv, sbatches' = sbatches, RowsStay,
         \A s \in suppliers' \ suppliers : s.row = Typed \/ s.row \in DOMAIN srows,
         \A o \in owed' \ owed : o.row \in DOMAIN srows
  PROVE  SupplierInv'
<1>1. ASSUME NEW b \in SBatch
      PROVE  DiscardedIsLate(b)'
  BY DEF SupplierInv, DiscardedIsLate, RowsStay
<1> QED BY <1>1 DEF SupplierInv, RowsStay

LEMMA StatusChanges ==
  ASSUME SupplierInv, NEW b, NEW status, status # "none",
         SetSStatus(b, status), RowsStay,
         suppliers' \subseteq suppliers, owed' \subseteq owed
  PROVE  SupplierInv'
<1>1. /\ DOMAIN sbatches' = SBatch
      /\ \A a \in SBatch : sbatches'[a] = IF a = b
           THEN [sbatches[b] EXCEPT !.status = status] ELSE sbatches[a]
  BY DEF SetSStatus, SupplierInv
<1>2. ASSUME NEW a \in SBatch
      PROVE  /\ DOMAIN sbatches'[a] = {"status", "discarded"}
             /\ sbatches'[a].discarded = sbatches[a].discarded
             /\ sbatches'[a].status = sbatches[a].status
                \/ sbatches'[a].status # "none"
  BY <1>1 DEF SupplierInv
<1>3. ASSUME NEW a \in SBatch
      PROVE  DiscardedIsLate(a)'
  BY <1>2 DEF SupplierInv, DiscardedIsLate, RowsStay
<1> QED BY <1>1, <1>2, <1>3 DEF SupplierInv, RowsStay

LEMMA DiscardKeeps ==
  ASSUME SupplierInv, NEW b \in SBatch, DiscardSBatch(b)
  PROVE  SupplierInv'
<1>1. /\ sbatches[b].status # "none" /\ ~HasCreated(b)
      /\ sbatches' = [sbatches EXCEPT ![b].discarded = TRUE]
      /\ srows' = [br \in DOMAIN srows \ Preview(b) |-> srows[br]]
      /\ UNCHANGED <<suppliers, owed>>
  BY DEF DiscardSBatch
<1>2. /\ DOMAIN srows' = DOMAIN srows \ Preview(b)
      /\ \A br \in DOMAIN srows' : srows'[br] = srows[br]
  BY <1>1
<1>3. /\ DOMAIN sbatches' = SBatch
      /\ \A a \in SBatch : sbatches'[a] = IF a = b
           THEN [sbatches[b] EXCEPT !.discarded = TRUE] ELSE sbatches[a]
  BY <1>1 DEF SupplierInv
<1>4. ASSUME NEW a \in SBatch
      PROVE  /\ DOMAIN sbatches'[a] = {"status", "discarded"}
             /\ sbatches'[a].status = sbatches[a].status
             /\ a # b => sbatches'[a] = sbatches[a]
  BY <1>3 DEF SupplierInv
<1>5. /\ \A br \in DOMAIN srows' : br[1] # b
      /\ \A s \in suppliers : s.row = Typed \/ s.row[1] # b
      /\ \A o \in owed : o.row[1] # b
  BY <1>1, <1>2 DEF HasCreated, FromBatch, OwedFrom, Preview
<1>6. \A br \in DOMAIN srows : br[1] # b => br \in DOMAIN srows'
  BY <1>2 DEF Preview
<1>7. ASSUME NEW a \in SBatch
      PROVE  DiscardedIsLate(a)'
  <2>1. CASE a = b
    BY <1>1, <1>4, <1>5, <2>1 DEF DiscardedIsLate
  <2>2. CASE a # b
    BY <1>1, <1>2, <1>4, <1>6, <2>2 DEF SupplierInv, DiscardedIsLate
  <2>3. QED
    BY <2>1, <2>2
<1>8. QED
  BY <1>2, <1>3, <1>4, <1>7 DEF SupplierInv

LEMMA ParseKeeps ==
  ASSUME SupplierInv, NEW b \in SBatch, NEW names, InsertSBatch(b, names)
  PROVE  SupplierInv'
<1>1. /\ sbatches[b].status = "none" /\ SetSStatus(b, "mapping")
      /\ UNCHANGED <<srows, suppliers, owed>>
  BY DEF InsertSBatch, SetSStatus
<1>2. RowsStay
  BY <1>1 DEF RowsStay, SupplierInv
<1> QED BY <1>1, <1>2, StatusChanges

\* The rows of a batch all arrive at once, and late if it was discarded.
LEMMA RowsArrive ==
  ASSUME SupplierInv, NEW b \in SBatch, InsertSRows(b)
  PROVE  SupplierInv'
<1>1. /\ UNCHANGED <<sbatches, suppliers, owed>>
      /\ DOMAIN srows \subseteq DOMAIN srows'
  BY DEF InsertSRows
<1>2. ASSUME NEW br \in DOMAIN srows'
      PROVE  /\ "late" \in DOMAIN srows'[br]
             /\ br[1] = b => srows'[br].late = sbatches[b].discarded
             /\ br[1] # b => br \in DOMAIN srows /\ srows'[br] = srows[br]
  <2>1. CASE br[1] = b
    <3>1. srows'[br] = [name |-> parses[b][br[2]].name, warned |-> parses[b][br[2]].warned,
                        result |-> "pending", supplier |-> {}, obligation |-> {},
                        late |-> sbatches[b].discarded]
      BY <2>1 DEF InsertSRows
    <3> QED BY <2>1, <3>1
  <2>2. CASE br[1] # b
    <3>1. br \in DOMAIN srows /\ srows'[br] = srows[br]
      BY <2>2 DEF InsertSRows
    <3> QED BY <2>2, <3>1 DEF SupplierInv
  <2> QED BY <2>1, <2>2
<1>3. ASSUME NEW a \in SBatch
      PROVE  DiscardedIsLate(a)'
  BY <1>1, <1>2 DEF SupplierInv, DiscardedIsLate
<1> QED BY <1>1, <1>2, <1>3 DEF SupplierInv

LEMMA SupplierStep ==
  ASSUME SupplierInv, [SupplierNext]_supplierVars
  PROVE  SupplierInv'
<1>1. CASE UNCHANGED <<sbatches, srows, suppliers, owed>>
  BY <1>1, BatchesStay, MarkedRowsStay
<1>2. ASSUME NEW q \in SRequest, MarkProcessing(q) \/ CloseSBatch(q)
      PROVE  SupplierInv'
  <2>1. PICK status : status # "none" /\ SetSStatus(confirms[q].batch, status)
                      /\ UNCHANGED <<srows, suppliers, owed>>
    BY <1>2 DEF MarkProcessing, CloseSBatch
  <2> QED BY <2>1, StatusChanges, MarkedRowsStay
<1>3. ASSUME NEW q \in SRequest, ReadLookups(q)
      PROVE  SupplierInv'
  <2>1. UNCHANGED <<srows, suppliers, owed>>
        /\ (sbatches' = sbatches \/ SetSStatus(confirms[q].batch, "failed"))
    BY <1>3 DEF ReadLookups
  <2> QED BY <1>1, <2>1, StatusChanges, MarkedRowsStay
<1>4. ASSUME NEW q \in SRequest, NEW r \in SRow, TakeRow(q, r)
      PROVE  SupplierInv'
  <2>1. PICK br, out : (MarkSRow(br, out, {}, {}) \/ srows' = srows)
                       /\ UNCHANGED <<sbatches, suppliers, owed>>
    BY <1>4 DEF TakeRow
  <2> QED BY <2>1, BatchesStay, MarkedRowsStay
<1>5. ASSUME NEW q \in SRequest, InsertSupplier(q)
      PROVE  SupplierInv'
  <2> DEFINE br == <<confirms[q].batch, confirms[q].row>>
             n == confirms[q].names[confirms[q].row]
  <2>1. /\ UNCHANGED <<sbatches, owed>>
        /\ \/ /\ br \in DOMAIN srows /\ srows' = srows
              /\ suppliers' = suppliers \cup {[name |-> n, row |-> br]}
           \/ suppliers' = suppliers /\ MarkSRow(br, "failed", {}, {})
    BY <1>5 DEF InsertSupplier, SourceRowExists, FailRow
  <2>2. [name |-> n, row |-> br].row = br
    OBVIOUS
  <2> HIDE DEF br, n
  <2>3. RowsStay
    BY <2>1, MarkedRowsStay
  <2>4. \A s \in suppliers' \ suppliers : s.row \in DOMAIN srows
    BY <2>1, <2>2
  <2> QED BY <2>1, <2>3, <2>4, BatchesStay
<1>6. ASSUME NEW q \in SRequest, InsertObligation(q)
      PROVE  SupplierInv'
  <2> DEFINE br == <<confirms[q].batch, confirms[q].row>>
             o  == [row |-> br, supplier |-> confirms[q].supplier]
  <2>1. /\ UNCHANGED <<sbatches, suppliers>>
        /\ \/ br \in DOMAIN srows /\ srows' = srows /\ owed' = owed \cup {o}
           \/ owed' = owed /\ MarkSRow(br, "failed", confirms[q].supplier, {})
    BY <1>6 DEF InsertObligation, SourceRowExists, FailRow
  <2>2. o.row = br
    OBVIOUS
  <2> HIDE DEF br, o
  <2>3. RowsStay
    BY <2>1, MarkedRowsStay
  <2>4. \A x \in owed' \ owed : x.row \in DOMAIN srows
    BY <2>1, <2>2
  <2> QED BY <2>1, <2>3, <2>4, BatchesStay
<1>7. ASSUME NEW q \in SRequest, UpdateSupplier(q) \/ UpdateObligation(q) \/ MarkImported(q)
      PROVE  SupplierInv'
  <2>1. PICK br, out, s, o : (MarkSRow(br, out, s, o) \/ srows' = srows)
                             /\ UNCHANGED <<sbatches, suppliers, owed>>
    BY <1>7 DEF UpdateSupplier, UpdateObligation, MarkImported, FailRow
  <2> QED BY <2>1, BatchesStay, MarkedRowsStay
<1>8. ASSUME NEW b \in SBatch, RevertSBatch(b)
      PROVE  SupplierInv'
  <2>1. /\ SetSStatus(b, "reverted")
        /\ suppliers' \subseteq suppliers /\ owed' \subseteq owed
    BY <1>8 DEF RevertSBatch
  <2>2. RowsStay
    BY <1>8 DEF RevertSBatch, RowsStay, SupplierInv
  <2> QED BY <2>1, <2>2, StatusChanges
<1>9. ASSUME NEW n \in SName, TypeSupplier(n)
      PROVE  SupplierInv'
  <2>1. /\ suppliers' = suppliers \cup {[name |-> n, row |-> Typed]}
        /\ UNCHANGED <<sbatches, srows, owed>>
    BY <1>9 DEF TypeSupplier
  <2>2. [name |-> n, row |-> Typed].row = Typed
    OBVIOUS
  <2>3. RowsStay
    BY <2>1, MarkedRowsStay
  <2> QED BY <2>1, <2>2, <2>3, BatchesStay
<1> QED BY <1>1, <1>2, <1>3, <1>4, <1>5, <1>6, <1>7, <1>8, <1>9,
           ParseKeeps, RowsArrive, DiscardKeeps
     DEF SupplierNext, supplierVars, ReadSBatch, ConfirmDies, BillSupplier, ParseDies

\* A discard leaves nothing of the preview it deleted, of a confirmation that
\* began before it either: what a discarded batch has made is of rows its parse
\* inserted after the discard (discard_supplier_recurring_import_batch,
\* source_import_row_id, and the two calls of the parse route).
THEOREM DiscardedMadeNothingHolds == SupplierSpec => []DiscardedMadeNothing
<1>1. SupplierInit => SupplierInv
  BY DEF SupplierInit, SupplierInv, DiscardedIsLate
<1>2. ASSUME SupplierInv
      PROVE  DiscardedMadeNothing
  <2> SUFFICES ASSUME NEW b \in SBatch, sbatches[b].discarded,
                      NEW br \in {s.row : s \in FromBatch(b)} \cup {o.row : o \in OwedFrom(b)}
               PROVE  br \in DOMAIN srows /\ srows[br].late
    BY DEF DiscardedMadeNothing
  <2>1. br[1] = b /\ br \in DOMAIN srows
    BY <1>2 DEF SupplierInv, DiscardedIsLate, FromBatch, OwedFrom
  <2> QED BY <1>2, <2>1 DEF SupplierInv, DiscardedIsLate
<1>3. QED
  BY <1>1, <1>2, SupplierStep, PTL DEF SupplierSpec

-----------------------------------------------------------------------------
(* The import of suppliers: types *)

PreviewRowsTyped ==
  /\ DOMAIN srows \subseteq SBatch \X SRow
  /\ \A br \in DOMAIN srows :
       /\ srows[br] \in [name : SName, result : SResult, warned : BOOLEAN, late : BOOLEAN,
                         supplier : SUBSET suppliers, obligation : SUBSET owed]
       /\ sbatches[br[1]].status # "none"

\* The rows a parse has still to insert are the first of its batch.
ParsesTyped ==
  /\ DOMAIN parses \subseteq SBatch
  /\ \A b \in DOMAIN parses :
       /\ sbatches[b].status # "none" /\ Preview(b) = {}
       /\ DOMAIN parses[b] \subseteq SRow
       /\ \A r \in DOMAIN parses[b] : parses[b][r] \in [name : SName, warned : BOOLEAN]

SupplierTables ==
  /\ sbatches \in [SBatch -> [status : SStatus, discarded : BOOLEAN]]
  /\ PreviewRowsTyped /\ ParsesTyped
  /\ \A s \in suppliers : s.name \in SName
  /\ \A o \in owed : o.row \in SBatch \X SRow
  /\ inUse \subseteq SName

\* A confirmation knows the names of the rows it was sent, and no others.
ConfirmFields == {"step", "batch", "form", "names", "seen", "known", "listed",
                  "row", "supplier", "obligation", "failed"}
AtRow == {"supplier", "update", "obligation", "renewal", "mark"}
ConfirmStepNames == {"processing", "lookup", "rows"} \cup AtRow
ConfirmKnown(c) ==
  \/ c = NoConfirm
  \/ /\ DOMAIN c = ConfirmFields
     /\ c.step \in ConfirmStepNames /\ c.batch \in SBatch
     /\ DOMAIN c.names \subseteq SRow /\ DOMAIN c.form \subseteq DOMAIN c.names
     /\ \A r \in DOMAIN c.names : c.names[r] \in SName
     /\ c.step \in AtRow => c.row \in DOMAIN c.names

SupplierTypes ==
  /\ SupplierTables
  /\ DOMAIN confirms = SRequest /\ \A q \in SRequest : ConfirmKnown(confirms[q])

LEMMA ConfirmMoves ==
  ASSUME SupplierTypes, SupplierTables', NEW q \in SRequest, NEW c, ConfirmKnown(c),
         confirms' = [confirms EXCEPT ![q] = c]
  PROVE  SupplierTypes'
<1>1. ASSUME NEW o \in SRequest PROVE ConfirmKnown(confirms'[o])
  BY DEF SupplierTypes
<1> QED BY <1>1 DEF SupplierTypes

LEMMA ConfirmAtWork ==
  ASSUME SupplierTypes, NEW q \in SRequest, confirms[q].step \in ConfirmStepNames
  PROVE  /\ DOMAIN confirms[q] = ConfirmFields
         /\ confirms[q].batch \in SBatch
         /\ DOMAIN confirms[q].names \subseteq SRow
         /\ DOMAIN confirms[q].form \subseteq DOMAIN confirms[q].names
         /\ \A r \in DOMAIN confirms[q].names : confirms[q].names[r] \in SName
         /\ confirms[q].step \in AtRow => confirms[q].row \in DOMAIN confirms[q].names
BY DEF SupplierTypes, ConfirmKnown, NoConfirm, ConfirmStepNames, AtRow

\* A confirmation takes its next step: its form, names and row stay.
LEMMA ConfirmSteps ==
  ASSUME SupplierTypes, SupplierTables', NEW q \in SRequest,
         confirms[q].step \in ConfirmStepNames, NEW step \in ConfirmStepNames,
         step \in AtRow => confirms[q].step \in AtRow,
         NEW x, NEW y, NEW z,
         \/ confirms' = [confirms EXCEPT ![q].step = step]
         \/ confirms' = [confirms EXCEPT ![q].step = step, ![q].failed = x]
         \/ confirms' = [confirms EXCEPT ![q].step = step, ![q].supplier = x]
         \/ confirms' = [confirms EXCEPT ![q].step = step, ![q].supplier = x, ![q].seen = y]
         \/ confirms' = [confirms EXCEPT ![q].step = step, ![q].obligation = x]
         \/ confirms' = [confirms EXCEPT ![q].step = step, ![q].obligation = x, ![q].listed = y]
         \/ confirms' = [confirms EXCEPT ![q].step = step, ![q].seen = x, ![q].known = y,
                                         ![q].listed = z]
  PROVE  SupplierTypes'
<1>1. PICK c : /\ confirms' = [confirms EXCEPT ![q] = c]
               /\ \/ c = [confirms[q] EXCEPT !.step = step]
                  \/ c = [confirms[q] EXCEPT !.step = step, !.failed = x]
                  \/ c = [confirms[q] EXCEPT !.step = step, !.supplier = x]
                  \/ c = [confirms[q] EXCEPT !.step = step, !.supplier = x, !.seen = y]
                  \/ c = [confirms[q] EXCEPT !.step = step, !.obligation = x]
                  \/ c = [confirms[q] EXCEPT !.step = step, !.obligation = x, !.listed = y]
                  \/ c = [confirms[q] EXCEPT !.step = step, !.seen = x, !.known = y, !.listed = z]
  BY DEF SupplierTypes
<1>2. DOMAIN confirms[q] = ConfirmFields
  BY ConfirmAtWork
<1>3. /\ DOMAIN c = DOMAIN confirms[q] /\ c.step = step
      /\ c.batch = confirms[q].batch /\ c.names = confirms[q].names
      /\ c.form = confirms[q].form /\ c.row = confirms[q].row
  BY <1>1, <1>2 DEF ConfirmFields
<1>4. ConfirmKnown(c)
  BY <1>3, ConfirmAtWork DEF ConfirmKnown
<1> QED BY <1>1, <1>4, ConfirmMoves

LEMMA BatchIsSet ==
  ASSUME SupplierTables, NEW b \in SBatch, NEW st \in SStatus \ {"none"},
         SetSStatus(b, st), UNCHANGED <<parses, srows, suppliers, owed, inUse>>
  PROVE  SupplierTables'
<1>1. sbatches' \in [SBatch -> [status : SStatus, discarded : BOOLEAN]]
  BY DEF SupplierTables, SetSStatus
<1>2. \A a \in SBatch : sbatches'[a].status # "none" \/ sbatches'[a] = sbatches[a]
  BY DEF SupplierTables, SetSStatus
<1>3. \A br \in DOMAIN srows : br[1] \in SBatch
  BY DEF SupplierTables, PreviewRowsTyped
<1>4. PreviewRowsTyped'
  BY <1>2, <1>3 DEF SupplierTables, PreviewRowsTyped
<1>5. ParsesTyped'
  BY <1>2 DEF SupplierTables, ParsesTyped, Preview
<1> QED BY <1>1, <1>4, <1>5 DEF SupplierTables

\* A row is marked, and there may be more suppliers and obligations.
LEMMA ResultIsSet ==
  ASSUME SupplierTables, NEW br, NEW res \in SResult, NEW s, NEW o,
         MarkSRow(br, res, s, o) \/ srows' = srows,
         UNCHANGED <<sbatches, parses, inUse>>,
         suppliers \subseteq suppliers', owed \subseteq owed',
         \A x \in suppliers' \ suppliers : x.name \in SName,
         \A x \in owed' \ owed : x.row \in SBatch \X SRow
  PROVE  SupplierTables'
<1>1. PreviewRowsTyped' /\ DOMAIN srows' = DOMAIN srows
  <2>1. CASE srows' = srows
    BY <2>1 DEF SupplierTables, PreviewRowsTyped
  <2>2. CASE /\ br \in DOMAIN srows /\ s \subseteq suppliers /\ o \subseteq owed
             /\ srows' = [srows EXCEPT ![br] =
                  [@ EXCEPT !.result = res, !.supplier = s, !.obligation = o]]
    <3>1. PICK row : /\ row = [srows[br] EXCEPT !.result = res, !.supplier = s,
                                                !.obligation = o]
                     /\ srows' = [srows EXCEPT ![br] = row]
      BY <2>2
    <3>2. row \in [name : SName, result : SResult, warned : BOOLEAN, late : BOOLEAN,
                   supplier : SUBSET suppliers, obligation : SUBSET owed]
      <4>1. srows[br] \in [name : SName, result : SResult, warned : BOOLEAN, late : BOOLEAN,
                           supplier : SUBSET suppliers, obligation : SUBSET owed]
        BY <2>2 DEF SupplierTables, PreviewRowsTyped
      <4> QED BY <2>2, <3>1, <4>1
    <3>3. DOMAIN srows' = DOMAIN srows
      BY <3>1
    <3>4. ASSUME NEW x \in DOMAIN srows
          PROVE  srows'[x] \in [name : SName, result : SResult, warned : BOOLEAN, late : BOOLEAN,
                                supplier : SUBSET suppliers, obligation : SUBSET owed]
      BY <3>1, <3>2 DEF SupplierTables, PreviewRowsTyped
    <3>5. ASSUME NEW x \in DOMAIN srows
          PROVE  srows'[x] \in [name : SName, result : SResult, warned : BOOLEAN, late : BOOLEAN,
                                supplier : SUBSET suppliers', obligation : SUBSET owed']
      BY <3>4
    <3> QED BY <3>3, <3>5 DEF SupplierTables, PreviewRowsTyped
  <2> QED BY <2>1, <2>2 DEF MarkSRow
<1>2. ParsesTyped'
  BY <1>1 DEF SupplierTables, ParsesTyped, Preview
<1>3. (\A x \in suppliers' : x.name \in SName) /\ (\A x \in owed' : x.row \in SBatch \X SRow)
  BY DEF SupplierTables
<1> QED BY <1>1, <1>2, <1>3 DEF SupplierTables

LEMMA InsertSBatchTypes ==
  ASSUME SupplierTypes, NEW b \in SBatch, NEW rows \in SUBSET SRow,
         NEW names \in [rows -> SName], InsertSBatch(b, names)
  PROVE  SupplierTypes'
<1>1. /\ sbatches[b].status = "none" /\ SetSStatus(b, "mapping")
      /\ UNCHANGED <<srows, suppliers, owed, inUse, confirms>>
      /\ parses' = [c \in DOMAIN parses \cup {b} |->
           IF c = b THEN [r \in rows |-> [name |-> names[r], warned |-> Named(names[r]) # {}]]
           ELSE parses[c]]
  BY DEF InsertSBatch, SetSStatus
<1>2. sbatches' \in [SBatch -> [status : SStatus, discarded : BOOLEAN]]
      /\ sbatches'[b].status = "mapping"
      /\ \A a \in SBatch \ {b} : sbatches'[a] = sbatches[a]
  BY <1>1 DEF SupplierTypes, SupplierTables, SetSStatus, SStatus
<1>3. \A br \in DOMAIN srows : br[1] \in SBatch /\ br[1] # b
  BY <1>1 DEF SupplierTypes, SupplierTables, PreviewRowsTyped
<1>4. PreviewRowsTyped'
  BY <1>1, <1>2, <1>3 DEF SupplierTypes, SupplierTables, PreviewRowsTyped
<1>5. ASSUME NEW c \in DOMAIN parses'
      PROVE  /\ c \in SBatch /\ sbatches'[c].status # "none" /\ Preview(c)' = {}
             /\ DOMAIN parses'[c] \subseteq SRow
             /\ \A r \in DOMAIN parses'[c] : parses'[c][r] \in [name : SName, warned : BOOLEAN]
  <2>1. CASE c = b
    <3>1. parses'[c] = [r \in rows |-> [name |-> names[r], warned |-> Named(names[r]) # {}]]
      BY <1>1, <2>1
    <3> QED BY <1>1, <1>2, <1>3, <2>1, <3>1 DEF Preview
  <2>2. CASE c # b
    <3>1. c \in DOMAIN parses /\ parses'[c] = parses[c]
      BY <1>1, <2>2
    <3> QED BY <1>1, <1>2, <2>2, <3>1 DEF SupplierTypes, SupplierTables, ParsesTyped, Preview
  <2> QED BY <2>1, <2>2
<1>6. ParsesTyped'
  BY <1>5 DEF ParsesTyped
<1> QED BY <1>1, <1>2, <1>4, <1>6 DEF SupplierTypes, SupplierTables

LEMMA InsertSRowsTypes ==
  ASSUME SupplierTypes, NEW b \in SBatch, InsertSRows(b) \/ ParseDies(b)
  PROVE  SupplierTypes'
<1>1. /\ b \in DOMAIN parses /\ UNCHANGED <<sbatches, suppliers, owed, inUse, confirms>>
      /\ parses' = [c \in DOMAIN parses \ {b} |-> parses[c]]
  BY DEF InsertSRows, ParseDies
<1>2. /\ sbatches[b].status # "none" /\ Preview(b) = {} /\ DOMAIN parses[b] \subseteq SRow
      /\ \A r \in DOMAIN parses[b] : parses[b][r] \in [name : SName, warned : BOOLEAN]
  BY <1>1 DEF SupplierTypes, SupplierTables, ParsesTyped
<1>3. ASSUME NEW br \in DOMAIN srows'
      PROVE  \/ br \in DOMAIN srows /\ srows'[br] = srows[br]
             \/ /\ br \in {b} \X SRow
                /\ srows'[br] \in [name : SName, result : SResult, warned : BOOLEAN, late : BOOLEAN,
                                   supplier : SUBSET suppliers, obligation : SUBSET owed]
  <2>1. CASE ParseDies(b)
    BY <2>1 DEF ParseDies
  <2>2. CASE InsertSRows(b)
    <3>1. srows' = [x \in DOMAIN srows \cup ({b} \X DOMAIN parses[b]) |->
             IF x[1] = b
             THEN [name |-> parses[b][x[2]].name, warned |-> parses[b][x[2]].warned,
                   result |-> "pending", supplier |-> {}, obligation |-> {},
                   late |-> sbatches[b].discarded]
             ELSE srows[x]]
      BY <2>2 DEF InsertSRows
    <3>2. CASE br[1] = b
      <4>1. br \in {b} \X DOMAIN parses[b] /\ br[2] \in DOMAIN parses[b]
        BY <1>2, <3>1, <3>2 DEF Preview
      <4>2. srows'[br] = [name |-> parses[b][br[2]].name, warned |-> parses[b][br[2]].warned,
                          result |-> "pending", supplier |-> {}, obligation |-> {},
                          late |-> sbatches[b].discarded]
        BY <3>1, <3>2
      <4>3. sbatches[b].discarded \in BOOLEAN
        BY DEF SupplierTypes, SupplierTables
      <4> QED BY <1>2, <4>1, <4>2, <4>3 DEF SResult
    <3>3. CASE br[1] # b
      BY <3>1, <3>3
    <3> QED BY <3>2, <3>3
  <2> QED BY <2>1, <2>2
<1>4. PreviewRowsTyped'
  BY <1>1, <1>2, <1>3 DEF SupplierTypes, SupplierTables, PreviewRowsTyped
<1>5. ASSUME NEW c \in DOMAIN parses'
      PROVE  c \in DOMAIN parses /\ parses'[c] = parses[c] /\ Preview(c)' = {}
  <2>1. c \in DOMAIN parses /\ parses'[c] = parses[c] /\ c # b
    BY <1>1
  <2>2. Preview(c) = {}
    BY <2>1 DEF SupplierTypes, SupplierTables, ParsesTyped
  <2> QED BY <1>3, <2>1, <2>2 DEF Preview
<1>6. ParsesTyped'
  BY <1>1, <1>5 DEF SupplierTypes, SupplierTables, ParsesTyped
<1> QED BY <1>1, <1>4, <1>6 DEF SupplierTypes, SupplierTables

LEMMA ReadSBatchTypes ==
  ASSUME SupplierTypes, NEW q \in SRequest, NEW b \in SBatch,
         NEW sent \in [{br[2] : br \in Preview(b)} -> Decision], ReadSBatch(q, b, sent)
  PROVE  SupplierTypes'
<1>1. UNCHANGED <<sbatches, parses, srows, suppliers, owed, inUse>>
  BY DEF ReadSBatch
<1>2. PICK c : /\ c = [step |-> "processing", batch |-> b, form |-> sent,
                       names |-> [r \in DOMAIN sent |-> srows[<<b, r>>].name],
                       seen |-> {}, known |-> {}, listed |-> {},
                       row |-> 0, supplier |-> {}, obligation |-> {}, failed |-> FALSE]
               /\ confirms' = [confirms EXCEPT ![q] = c]
  BY DEF ReadSBatch
<1>3. ASSUME NEW r \in DOMAIN sent
      PROVE  r \in SRow /\ srows[<<b, r>>].name \in SName
  <2>1. PICK br \in DOMAIN srows : br[1] = b /\ br[2] = r
    BY DEF Preview
  <2>2. br \in SBatch \X SRow /\ srows[br].name \in SName
    BY DEF SupplierTypes, SupplierTables, PreviewRowsTyped
  <2>3. br = <<b, r>>
    BY <2>1, <2>2
  <2> QED BY <2>1, <2>2, <2>3
<1>4. ConfirmKnown(c)
  BY <1>2, <1>3 DEF ConfirmKnown, ConfirmFields, ConfirmStepNames, AtRow
<1>5. SupplierTables'
  BY <1>1 DEF SupplierTypes, SupplierTables, PreviewRowsTyped, ParsesTyped, Preview
<1> QED BY <1>2, <1>4, <1>5, ConfirmMoves

LEMMA ReadLookupsTypes ==
  ASSUME SupplierTypes, NEW q \in SRequest, ReadLookups(q)
  PROVE  SupplierTypes'
<1>1. /\ confirms[q].step = "lookup" /\ UNCHANGED <<parses, srows, suppliers, owed, inUse>>
      /\ confirms[q].step \in ConfirmStepNames /\ "rows" \in ConfirmStepNames \ AtRow
  BY DEF ReadLookups, ConfirmStepNames, AtRow
<1>2. CASE /\ UNCHANGED sbatches
           /\ confirms' = [confirms EXCEPT ![q].step = "rows", ![q].seen = suppliers,
                ![q].known = {br[2] : br \in Preview(confirms[q].batch)}, ![q].listed = owed]
  <2>1. SupplierTables'
    BY <1>1, <1>2 DEF SupplierTypes, SupplierTables, PreviewRowsTyped, ParsesTyped, Preview
  <2>2. PICK known : confirms' = [confirms EXCEPT ![q].step = "rows", ![q].seen = suppliers,
                                    ![q].known = known, ![q].listed = owed]
    BY <1>2
  <2> QED BY <1>1, <2>1, <2>2, ConfirmSteps
<1>3. CASE SetSStatus(confirms[q].batch, "failed") /\ confirms' = [confirms EXCEPT ![q] = NoConfirm]
  <2>1. SupplierTables'
    BY <1>1, <1>3, BatchIsSet, ConfirmAtWork DEF SupplierTypes, SStatus
  <2> QED BY <1>3, <2>1, ConfirmMoves DEF ConfirmKnown
<1> QED BY <1>2, <1>3 DEF ReadLookups

LEMMA TakeRowTypes ==
  ASSUME SupplierTypes, NEW q \in SRequest, NEW r \in SRow, TakeRow(q, r)
  PROVE  SupplierTypes'
<1> DEFINE rq == confirms[q]
           out == Outcome(rq, r)
           rest == [k \in DOMAIN rq.form \ {r} |-> rq.form[k]]
           step == CASE out = "insert" -> "supplier"
                           [] out = "update" -> "update"
                           [] OTHER -> "rows"
           failed == rq.failed \/ out \in {"failed", "missing"}
<1>1. rq.step = "rows" /\ r \in DOMAIN rq.form
      /\ UNCHANGED <<sbatches, parses, suppliers, owed, inUse>>
  BY DEF TakeRow
<1>2. confirms' = [confirms EXCEPT ![q].form = rest, ![q].row = r, ![q].step = step,
                                   ![q].failed = failed]
  BY DEF TakeRow
<1>3. srows' = srows \/ (out \in {"skipped", "failed"} /\ MarkSRow(<<rq.batch, r>>, out, {}, {}))
  BY DEF TakeRow
<1>4. step \in {"supplier", "update", "rows"} /\ DOMAIN rest \subseteq DOMAIN rq.form
  OBVIOUS
<1>5. step \in ConfirmStepNames /\ rq.step \in ConfirmStepNames
  BY <1>1, <1>4 DEF ConfirmStepNames, AtRow
<1> HIDE DEF out, step, failed, rest
<1>6. SupplierTables'
  <2>1. PICK res \in SResult : MarkSRow(<<rq.batch, r>>, res, {}, {}) \/ srows' = srows
    BY <1>3 DEF SResult
  <2> QED BY <1>1, <2>1, ResultIsSet DEF SupplierTypes
<1>7. PICK c : c = [rq EXCEPT !.form = rest, !.row = r, !.step = step, !.failed = failed]
  OBVIOUS
<1>8. confirms' = [confirms EXCEPT ![q] = c]
  BY <1>2, <1>7 DEF SupplierTypes
<1>9. DOMAIN rq = ConfirmFields
  BY <1>5, ConfirmAtWork
<1>10. /\ DOMAIN c = DOMAIN rq /\ c.step = step /\ c.form = rest /\ c.row = r
       /\ c.batch = rq.batch /\ c.names = rq.names
  BY <1>7, <1>9 DEF ConfirmFields
<1>11. ConfirmKnown(c)
  BY <1>1, <1>4, <1>5, <1>9, <1>10, ConfirmAtWork DEF ConfirmKnown
<1> QED BY <1>6, <1>8, <1>11, ConfirmMoves

LEMMA FailRowTypes ==
  ASSUME SupplierTypes, NEW q \in SRequest, confirms[q].step \in AtRow, NEW s, FailRow(q, s),
         UNCHANGED <<sbatches, parses, suppliers, owed, inUse>>
  PROVE  SupplierTypes'
<1>1. "rows" \in ConfirmStepNames \ AtRow /\ confirms[q].step \in ConfirmStepNames
      /\ "failed" \in SResult
  BY DEF ConfirmStepNames, AtRow, SResult
<1>2. PICK br : MarkSRow(br, "failed", s, {})
  BY DEF FailRow
<1>3. confirms' = [confirms EXCEPT ![q].step = "rows", ![q].failed = TRUE]
  BY DEF FailRow
<1>4. SupplierTables'
  BY <1>1, <1>2, ResultIsSet DEF SupplierTypes
<1> QED BY <1>1, <1>3, <1>4, ConfirmSteps

LEMMA InsertSupplierTypes ==
  ASSUME SupplierTypes, NEW q \in SRequest, InsertSupplier(q)
  PROVE  SupplierTypes'
<1> DEFINE n == confirms[q].names[confirms[q].row]
           s == [name |-> n, row |-> <<confirms[q].batch, confirms[q].row>>]
<1>1. /\ confirms[q].step = "supplier" /\ UNCHANGED <<sbatches, parses, owed, inUse>>
      /\ confirms[q].step \in ConfirmStepNames \cap AtRow
      /\ "obligation" \in ConfirmStepNames
  BY DEF InsertSupplier, ConfirmStepNames, AtRow
<1>2. n \in SName
  BY <1>1, ConfirmAtWork
<1>3. CASE /\ suppliers' = suppliers \cup {s} /\ UNCHANGED srows
           /\ confirms' = [confirms EXCEPT ![q].step = "obligation", ![q].supplier = {s},
                                           ![q].seen = @ \cup {s}]
  <2>1. s.name = n
    OBVIOUS
  <2> HIDE DEF n, s
  <2>2. SupplierTables'
    <3>1. "failed" \in SResult
      BY DEF SResult
    <3> QED BY <1>1, <1>2, <1>3, <2>1, <3>1, ResultIsSet DEF SupplierTypes
  <2>3. PICK seen : confirms' = [confirms EXCEPT ![q].step = "obligation",
                                   ![q].supplier = {s}, ![q].seen = seen]
    BY <1>3
  <2> QED BY <1>1, <2>2, <2>3, ConfirmSteps
<1>4. CASE FailRow(q, {}) /\ UNCHANGED suppliers
  BY <1>1, <1>4, FailRowTypes
<1> QED BY <1>3, <1>4 DEF InsertSupplier

LEMMA UpdateTypes ==
  ASSUME SupplierTypes, NEW q \in SRequest, UpdateSupplier(q) \/ UpdateObligation(q)
  PROVE  SupplierTypes'
<1>1. /\ confirms[q].step \in ConfirmStepNames \cap AtRow
      /\ {"renewal", "mark"} \subseteq ConfirmStepNames
      /\ UNCHANGED <<sbatches, parses, suppliers, owed, inUse>>
  BY DEF UpdateSupplier, UpdateObligation, ConfirmStepNames, AtRow
<1>2. ASSUME NEW s, FailRow(q, s)
      PROVE  SupplierTypes'
  BY <1>1, <1>2, FailRowTypes
<1>3. ASSUME srows' = srows
      PROVE  SupplierTables'
  <2>1. "failed" \in SResult
    BY DEF SResult
  <2> QED BY <1>1, <1>3, <2>1, ResultIsSet DEF SupplierTypes
<1>4. CASE UpdateSupplier(q)
  <2>1. PICK s : \/ /\ srows' = srows
                    /\ confirms' = [confirms EXCEPT ![q].step = "renewal", ![q].supplier = {s}]
                 \/ FailRow(q, {})
    BY <1>4 DEF UpdateSupplier
  <2> QED BY <1>1, <1>2, <1>3, <2>1, ConfirmSteps
<1>5. CASE UpdateObligation(q)
  <2>1. PICK o : \/ /\ srows' = srows
                    /\ confirms' = [confirms EXCEPT ![q].step = "mark", ![q].obligation = {o}]
                 \/ FailRow(q, confirms[q].supplier)
    BY <1>5 DEF UpdateObligation
  <2> QED BY <1>1, <1>2, <1>3, <2>1, ConfirmSteps
<1> QED BY <1>4, <1>5

LEMMA ObligationTypes ==
  ASSUME SupplierTypes, NEW q \in SRequest, InsertObligation(q) \/ MarkImported(q)
  PROVE  SupplierTypes'
<1>1. /\ confirms[q].step \in ConfirmStepNames \cap AtRow
      /\ {"rows", "mark"} \subseteq ConfirmStepNames
      /\ UNCHANGED <<sbatches, parses, suppliers, inUse>>
      /\ {"failed", "success"} \subseteq SResult
  BY DEF InsertObligation, MarkImported, ConfirmStepNames, AtRow, SResult
<1>2. CASE MarkImported(q)
  <2>1. PICK br, s, o : MarkSRow(br, "success", s, o)
    BY <1>2 DEF MarkImported
  <2>2. owed' = owed /\ confirms' = [confirms EXCEPT ![q].step = "rows"]
    BY <1>2 DEF MarkImported
  <2>3. SupplierTables'
    BY <1>1, <2>1, <2>2, ResultIsSet DEF SupplierTypes
  <2> QED BY <1>1, <2>2, <2>3, ConfirmSteps
<1>3. CASE InsertObligation(q)
  <2> DEFINE br == <<confirms[q].batch, confirms[q].row>>
             o  == [row |-> br, supplier |-> confirms[q].supplier]
  <2>1. CASE FailRow(q, confirms[q].supplier) /\ UNCHANGED owed
    BY <1>1, <2>1, FailRowTypes
  <2>2. CASE /\ br \in DOMAIN srows /\ owed' = owed \cup {o} /\ srows' = srows
             /\ confirms' = [confirms EXCEPT ![q].step = "mark", ![q].obligation = {o},
                                             ![q].listed = @ \cup {o}]
    <3>1. o.row \in SBatch \X SRow
      BY <2>2 DEF SupplierTypes, SupplierTables, PreviewRowsTyped
    <3> HIDE DEF br, o
    <3>2. SupplierTables'
      BY <1>1, <2>2, <3>1, ResultIsSet DEF SupplierTypes
    <3>3. PICK known : confirms' = [confirms EXCEPT ![q].step = "mark",
                                       ![q].obligation = {o}, ![q].listed = known]
      BY <2>2
    <3> QED BY <1>1, <3>2, <3>3, ConfirmSteps
  <2> QED BY <1>3, <2>1, <2>2 DEF InsertObligation, SourceRowExists
<1> QED BY <1>2, <1>3

LEMMA BatchTypes ==
  ASSUME SupplierTypes, NEW b \in SBatch, DiscardSBatch(b) \/ RevertSBatch(b)
  PROVE  SupplierTypes'
<1>1. CASE DiscardSBatch(b)
  <2>1. /\ UNCHANGED <<parses, suppliers, owed, inUse, confirms>>
        /\ sbatches' = [sbatches EXCEPT ![b].discarded = TRUE]
        /\ srows' = [br \in DOMAIN srows \ Preview(b) |-> srows[br]]
    BY <1>1 DEF DiscardSBatch
  <2>2. sbatches' \in [SBatch -> [status : SStatus, discarded : BOOLEAN]]
        /\ \A a \in SBatch : sbatches'[a].status = sbatches[a].status
    BY <2>1 DEF SupplierTypes, SupplierTables
  <2>3. \A br \in DOMAIN srows' : br \in DOMAIN srows /\ srows'[br] = srows[br]
                                  /\ br[1] \in SBatch
    BY <2>1 DEF SupplierTypes, SupplierTables, PreviewRowsTyped
  <2>4. PreviewRowsTyped'
    BY <2>1, <2>2, <2>3 DEF SupplierTypes, SupplierTables, PreviewRowsTyped
  <2>5. ParsesTyped'
    BY <2>1, <2>2, <2>3 DEF SupplierTypes, SupplierTables, ParsesTyped, Preview
  <2> QED BY <2>1, <2>2, <2>4, <2>5 DEF SupplierTypes, SupplierTables
<1>2. CASE RevertSBatch(b)
  <2>1. /\ SetSStatus(b, "reverted") /\ UNCHANGED <<parses, inUse, confirms>>
        /\ suppliers' \subseteq suppliers /\ owed' \subseteq owed
        /\ srows' = [br \in DOMAIN srows |->
             [srows[br] EXCEPT !.supplier = @ \cap suppliers', !.obligation = @ \cap owed']]
    BY <1>2 DEF RevertSBatch
  <2>2. /\ sbatches' \in [SBatch -> [status : SStatus, discarded : BOOLEAN]]
        /\ \A a \in SBatch : sbatches'[a].status # "none" \/ sbatches'[a] = sbatches[a]
    BY <2>1 DEF SupplierTypes, SupplierTables, SetSStatus, SStatus
  <2>3. DOMAIN srows' = DOMAIN srows /\ \A br \in DOMAIN srows : br[1] \in SBatch
    BY <2>1 DEF SupplierTypes, SupplierTables, PreviewRowsTyped
  <2>4. ASSUME NEW br \in DOMAIN srows
        PROVE  srows'[br] \in [name : SName, result : SResult, warned : BOOLEAN, late : BOOLEAN,
                               supplier : SUBSET suppliers', obligation : SUBSET owed']
    <3>1. srows'[br] = [srows[br] EXCEPT !.supplier = @ \cap suppliers',
                                         !.obligation = @ \cap owed']
      BY <2>1
    <3>2. srows[br] \in [name : SName, result : SResult, warned : BOOLEAN, late : BOOLEAN,
                         supplier : SUBSET suppliers, obligation : SUBSET owed]
      BY DEF SupplierTypes, SupplierTables, PreviewRowsTyped
    <3> QED BY <3>1, <3>2
  <2>5. PreviewRowsTyped'
    BY <2>2, <2>3, <2>4 DEF SupplierTypes, SupplierTables, PreviewRowsTyped
  <2>6. ParsesTyped'
    BY <2>1, <2>2, <2>3 DEF SupplierTypes, SupplierTables, ParsesTyped, Preview
  <2> QED BY <2>1, <2>2, <2>5, <2>6 DEF SupplierTypes, SupplierTables
<1> QED BY <1>1, <1>2

LEMMA SupplierTypesStep ==
  ASSUME SupplierTypes, [SupplierNext]_supplierVars
  PROVE  SupplierTypes'
<1> DEFINE kept == UNCHANGED <<sbatches, parses, srows, suppliers, owed, inUse>>
<1>1. kept => SupplierTables'
  BY DEF SupplierTypes, SupplierTables, PreviewRowsTyped, ParsesTyped, Preview
<1>2. CASE UNCHANGED supplierVars
  BY <1>1, <1>2 DEF supplierVars, SupplierTypes
<1>3. ASSUME NEW q \in SRequest, MarkProcessing(q)
      PROVE  SupplierTypes'
  <2>1. confirms[q].step = "processing"
        /\ confirms[q].step \in ConfirmStepNames /\ "lookup" \in ConfirmStepNames \ AtRow
    BY <1>3 DEF MarkProcessing, ConfirmStepNames, AtRow
  <2>2. SupplierTables'
    BY <1>3, <2>1, ConfirmAtWork, BatchIsSet DEF MarkProcessing, SupplierTypes, SStatus
  <2> QED BY <1>3, <2>1, <2>2, ConfirmSteps DEF MarkProcessing
<1>4. ASSUME NEW q \in SRequest, CloseSBatch(q)
      PROVE  SupplierTypes'
  <2>1. PICK st \in {"completed", "completed_with_errors"} : SetSStatus(confirms[q].batch, st)
    BY <1>4 DEF CloseSBatch
  <2>2. confirms[q].step \in ConfirmStepNames
    BY <1>4 DEF CloseSBatch, ConfirmStepNames
  <2>3. SupplierTables'
    BY <1>4, <2>1, <2>2, ConfirmAtWork, BatchIsSet DEF CloseSBatch, SupplierTypes, SStatus
  <2> QED BY <1>4, <2>3, ConfirmMoves DEF CloseSBatch, ConfirmKnown
<1>5. ASSUME NEW q \in SRequest, ConfirmDies(q)
      PROVE  SupplierTypes'
  BY <1>1, <1>5, ConfirmMoves DEF ConfirmDies, ConfirmKnown
<1>6. ASSUME NEW n \in SName, TypeSupplier(n) \/ BillSupplier(n)
      PROVE  SupplierTypes'
  <2>1. UNCHANGED <<sbatches, parses, srows, owed, confirms>> /\ suppliers \subseteq suppliers'
    BY <1>6 DEF TypeSupplier, BillSupplier
  <2>2. (\A s \in suppliers' : s.name \in SName) /\ inUse' \subseteq SName
    BY <1>6 DEF TypeSupplier, BillSupplier, SupplierTypes, SupplierTables
  <2>3. PreviewRowsTyped' /\ ParsesTyped'
    BY <2>1 DEF SupplierTypes, SupplierTables, PreviewRowsTyped, ParsesTyped, Preview
  <2> QED BY <2>1, <2>2, <2>3 DEF SupplierTypes, SupplierTables
<1>7. ASSUME NEW b \in SBatch, NEW rows \in SUBSET SRow \ {{}}, NEW names \in [rows -> SName],
             InsertSBatch(b, names)
      PROVE  SupplierTypes'
  BY <1>7, InsertSBatchTypes
<1>8. ASSUME NEW q \in SRequest, NEW r \in SRow, TakeRow(q, r)
      PROVE  SupplierTypes'
  BY <1>8, TakeRowTypes
<1> QED BY <1>2, <1>3, <1>4, <1>5, <1>6, <1>7, <1>8, InsertSRowsTypes, ReadSBatchTypes,
           ReadLookupsTypes, InsertSupplierTypes, UpdateTypes, ObligationTypes, BatchTypes
        DEF SupplierNext

LEMMA SupplierTypesStart ==
  ASSUME SupplierInit
  PROVE  SupplierTypes
BY DEF SupplierInit, SupplierTypes, SupplierTables, PreviewRowsTyped, ParsesTyped,
       ConfirmKnown, SStatus

\* What a preview row refers to is there, and what confirmations, discards and
\* reverts make of a batch keeps its type, whichever of them meet (the parse and
\* confirm routes and the functions that discard and revert a batch).
THEOREM SupplierTypeCorrect == SupplierSpec => []SupplierTypeOK
<1>1. SupplierTypes => SupplierTypeOK
  BY DEF SupplierTypes, SupplierTables, PreviewRowsTyped, ParsesTyped, SupplierTypeOK
<1> QED BY <1>1, SupplierTypesStart, SupplierTypesStep, PTL DEF SupplierSpec

-----------------------------------------------------------------------------
(* The review of an intake *)

\* A row of a complete intake, as it is or as a screen loaded it, has the flags
\* of all that was guessed.
ReviewRow ==
  [stage : {"sent", "refused", "awaiting_entity", "received", "complete"},
   entity : BOOLEAN,
   review : Final \cup {"pending_review", "needs_attention", "duplicate_suspected"},
   flags : SUBSET {"entity_unresolved", "due_date_missing", "amount_missing",
                   "amount_mismatch", "supplier_ambiguous", "supplier_unmatched",
                   "possible_duplicate"}]
GuessesFlagged(row) ==
  /\ row \in ReviewRow
  /\ row.stage = "complete" => ProposalFlags(payload) \subseteq row.flags
ScreenFits(f) ==
  /\ DOMAIN f = {"intake", "draft", "panel"}
  /\ GuessesFlagged(f.intake)
  /\ DOMAIN f.panel = {"open", "confirmed"}

\* What was verified was verified with the boxes of the guesses ticked.
ReviewInv ==
  /\ GuessesFlagged(intake)
  /\ DOMAIN screen = Reviewer
  /\ screen = [u \in Reviewer |-> screen[u]]
  /\ \A u \in Reviewer : ScreenFits(screen[u])
  /\ intake.review = "data_verified" => Boxes(ProposalFlags(payload)) \subseteq ticked

LEMMA BoxesGrow ==
  ASSUME NEW F, NEW G, F \subseteq G
  PROVE  Boxes(F) \subseteq Boxes(G)
BY DEF Boxes

LEMMA StatusOfMatch ==
  ASSUME NEW p
  PROVE  SupplierMatch(p).status \in {"exact", "candidates", "none"}
BY DEF SupplierMatch

\* Each guess has its flag, and each flag its box.
LEMMA GuessHasItsBox ==
  /\ ~Stated(payload, "due_date") => "due_date" \in Boxes(ProposalFlags(payload))
  /\ (\A f \in {"subtotal", "total_amount"} : ~Stated(payload, f))
       => "amount" \in Boxes(ProposalFlags(payload))
  /\ SupplierMatch(payload).status # "exact"
       => "supplier" \in Boxes(ProposalFlags(payload))
<1>1. ASSUME NEW F
      PROVE  /\ "due_date_missing" \in F => "due_date" \in Boxes(F)
             /\ "amount_missing" \in F => "amount" \in Boxes(F)
             /\ "supplier_ambiguous" \in F \/ "supplier_unmatched" \in F
                  => "supplier" \in Boxes(F)
  BY DEF Boxes
<1>2. ~Stated(payload, "due_date") => "due_date_missing" \in ProposalFlags(payload)
  BY DEF ProposalFlags
<1>3. Total(payload) = 0 => "amount_missing" \in ProposalFlags(payload)
  BY DEF ProposalFlags
<1>4. (\A f \in {"subtotal", "total_amount"} : ~Stated(payload, f)) => Total(payload) = 0
  BY DEF Total, AmountOf
<1>5. SupplierMatch(payload).status = "candidates"
        => "supplier_ambiguous" \in ProposalFlags(payload)
  BY DEF ProposalFlags
<1>6. SupplierMatch(payload).status = "none"
        => "supplier_unmatched" \in ProposalFlags(payload)
  BY DEF ProposalFlags
<1>7. QED
  BY <1>1, <1>2, <1>3, <1>4, <1>5, <1>6, StatusOfMatch

\* One screen changes: what it shows is the row, or what it showed.
LEMMA ScreenGoesOn ==
  ASSUME ReviewInv, payload' = payload, GuessesFlagged(intake'),
         NEW u \in Reviewer, NEW g, screen' = [screen EXCEPT ![u] = g],
         DOMAIN g = {"intake", "draft", "panel"},
         g.intake \in {screen[u].intake, intake'},
         DOMAIN g.panel = {"open", "confirmed"}
  PROVE  /\ GuessesFlagged(intake)' /\ DOMAIN screen' = Reviewer
         /\ screen' = [v \in Reviewer |-> screen'[v]]
         /\ \A v \in Reviewer : ScreenFits(screen[v])'
<1>1. /\ screen'[u] = g
      /\ \A v \in Reviewer \ {u} : screen'[v] = screen[v]
      /\ DOMAIN screen' = Reviewer /\ screen' = [v \in Reviewer |-> screen'[v]]
  BY DEF ReviewInv
<1>2. \A row : GuessesFlagged(row)' <=> GuessesFlagged(row)
  BY DEF GuessesFlagged
<1>3. ASSUME NEW v \in Reviewer
      PROVE  ScreenFits(screen[v])'
  <2>1. CASE v = u
    BY <1>1, <1>2, <2>1 DEF ScreenFits, ReviewInv
  <2>2. CASE v # u
    BY <1>1, <1>2, <2>2 DEF ScreenFits, ReviewInv
  <2>3. QED
    BY <2>1, <2>2
<1>4. QED
  BY <1>1, <1>2, <1>3
LEMMA ReviewStart == IntakeReviewInit => ReviewInv
<1> SUFFICES ASSUME IntakeReviewInit PROVE ReviewInv
  OBVIOUS
<1>1. intake \in ReviewRow /\ intake.stage = "sent" /\ intake.review = "pending_review"
  BY DEF IntakeReviewInit, ReviewRow, Final
<1>2. GuessesFlagged(intake)
  BY <1>1 DEF GuessesFlagged
<1>3. DOMAIN screen = Reviewer /\ screen = [u \in Reviewer |-> screen[u]]
  BY DEF IntakeReviewInit
<1>4. ASSUME NEW u \in Reviewer
      PROVE  ScreenFits(screen[u])
  <2>1. screen[u] = [intake |-> intake, draft |-> draft, panel |-> Closed]
    BY DEF IntakeReviewInit
  <2>2. DOMAIN Closed = {"open", "confirmed"}
    BY DEF Closed
  <2>3. QED
    BY <1>2, <2>1, <2>2 DEF ScreenFits
<1>5. QED
  BY <1>1, <1>2, <1>3, <1>4 DEF ReviewInv

LEMMA ReviewStep == ReviewInv /\ [IntakeReviewNext]_intakeVars => ReviewInv'
<1> SUFFICES ASSUME ReviewInv, [IntakeReviewNext]_intakeVars
             PROVE  ReviewInv'
  OBVIOUS
<1>0. /\ GuessesFlagged(intake) /\ intake \in ReviewRow
      /\ \A u \in Reviewer : /\ screen[u].intake \in ReviewRow
                             /\ GuessesFlagged(screen[u].intake)
                             /\ DOMAIN screen[u] = {"intake", "draft", "panel"}
                             /\ DOMAIN screen[u].panel = {"open", "confirmed"}
  BY DEF ReviewInv, ScreenFits, GuessesFlagged
<1>1. CASE Receive \/ CreateBill
  <2>1. GuessesFlagged(intake') /\ intake'.review = intake.review
    <3>1. CASE Receive
      BY <1>0, <3>1 DEF Receive, GuessesFlagged, ReviewRow
    <3>2. CASE CreateBill
      <4>1. ProposalFlags(payload) \subseteq
              {"due_date_missing", "amount_missing", "amount_mismatch",
               "supplier_ambiguous", "supplier_unmatched"}
        BY DEF ProposalFlags
      <4>2. PICK F \in {ProposalFlags(payload),
                        ProposalFlags(payload) \cup {"possible_duplicate"}} :
              intake' = [intake EXCEPT !.stage = "complete", !.flags = F]
        BY <3>2 DEF CreateBill
      <4>3. QED
        BY <1>0, <4>1, <4>2 DEF GuessesFlagged, ReviewRow
    <3>3. QED
      BY <1>1, <3>1, <3>2
  <2>2. UNCHANGED <<payload, screen, ticked>>
    <3>1. Receive => UNCHANGED <<payload, screen, ticked>>
      BY Zenon DEF Receive
    <3>2. CreateBill => UNCHANGED <<payload, screen, ticked>>
      BY Zenon DEF CreateBill
    <3>3. QED
      BY <1>1, <3>1, <3>2
  <2>3. \A row : GuessesFlagged(row)' <=> GuessesFlagged(row)
    BY <2>2 DEF GuessesFlagged
  <2>4. QED
    BY <2>1, <2>2, <2>3 DEF ReviewInv, ScreenFits
<1>2. ASSUME NEW u \in Reviewer, Load(u) PROVE ReviewInv'
  <2>1. PICK g : g = [screen[u] EXCEPT !.intake = intake, !.draft = draft]
    OBVIOUS
  <2>2. /\ DOMAIN g = {"intake", "draft", "panel"} /\ g.intake = intake
        /\ g.panel = screen[u].panel
    BY <1>0, <2>1
  <2>3. screen' = [screen EXCEPT ![u] = g] /\ UNCHANGED <<payload, intake, ticked>>
    BY <1>2, <2>1 DEF Load, ReviewInv
  <2>4. QED
    BY <1>0, <2>2, <2>3, ScreenGoesOn DEF ReviewInv
<1>3. ASSUME NEW u \in Reviewer,
             Toggle(u) \/ \E b \in {"due_date", "amount", "entity", "supplier", "duplicates"} :
                             Tick(u, b)
      PROVE  ReviewInv'
  <2>1. PICK panel : /\ DOMAIN panel = {"open", "confirmed"}
                     /\ screen' = [screen EXCEPT ![u].panel = panel]
    BY <1>0, <1>3 DEF Toggle, Tick, Closed
  <2>2. PICK g : g = [screen[u] EXCEPT !.panel = panel]
    OBVIOUS
  <2>3. /\ DOMAIN g = {"intake", "draft", "panel"} /\ g.intake = screen[u].intake
        /\ g.panel = panel
    BY <1>0, <2>2
  <2>4. screen' = [screen EXCEPT ![u] = g] /\ UNCHANGED <<payload, intake, ticked>>
    BY <1>3, <2>1, <2>2 DEF Toggle, Tick, ReviewInv
  <2>5. QED
    BY <1>0, <2>1, <2>3, <2>4, ScreenGoesOn DEF ReviewInv
<1>4. ASSUME NEW u \in Reviewer, NEW target, SetReview(u, target)
      PROVE  ReviewInv'
  <2>1. /\ target \in Targets(intake) /\ target \in Final \cup
             {"pending_review", "needs_attention", "duplicate_suspected"}
        /\ intake' = [intake EXCEPT !.review = target]
        /\ UNCHANGED payload
        /\ ticked' = IF target = "data_verified" THEN screen[u].panel.confirmed ELSE ticked
    BY <1>4 DEF SetReview, Targets, Final
  <2>2. GuessesFlagged(intake')
    BY <1>0, <2>1 DEF GuessesFlagged, ReviewRow
  <2>3. PICK g : g = [screen[u] EXCEPT !.intake = intake', !.draft = draft', !.panel = Closed]
    OBVIOUS
  <2>4. /\ DOMAIN g = {"intake", "draft", "panel"} /\ g.intake = intake'
        /\ DOMAIN g.panel = {"open", "confirmed"}
    BY <1>0, <2>3 DEF Closed
  <2>5. screen' = [screen EXCEPT ![u] = g]
    BY <1>4, <2>3 DEF SetReview, Loaded, ReviewInv
  <2>6. intake.review # "data_verified"
    BY <2>1 DEF Targets
  <2>7. target = "data_verified" => Boxes(ProposalFlags(payload)) \subseteq ticked'
    <3> SUFFICES ASSUME target = "data_verified"
                 PROVE  Boxes(ProposalFlags(payload)) \subseteq ticked'
      OBVIOUS
    <3>1. /\ screen[u].intake.stage = "complete"
          /\ Boxes(screen[u].intake.flags) \subseteq screen[u].panel.confirmed
      BY <1>4 DEF SetReview, NothingBlocks
    <3>2. ProposalFlags(payload) \subseteq screen[u].intake.flags
      BY <1>0, <3>1 DEF GuessesFlagged
    <3>3. QED
      BY <2>1, <3>1, <3>2, BoxesGrow
  <2>8. intake'.review = target
    BY <1>0, <2>1 DEF ReviewRow
  <2>9. Boxes(ProposalFlags(payload))' = Boxes(ProposalFlags(payload))
    BY <2>1
  <2>10. QED
    BY <2>1, <2>2, <2>4, <2>5, <2>7, <2>8, <2>9, ScreenGoesOn DEF ReviewInv
<1>5. ASSUME NEW u \in Reviewer, NEW s, NEW d, NEW t, SaveCorrections(u, s, d, t)
      PROVE  ReviewInv'
  <2>1. PICK g : g = [screen[u] EXCEPT !.intake = intake', !.draft = draft']
    OBVIOUS
  <2>2. /\ DOMAIN g = {"intake", "draft", "panel"} /\ g.intake = intake'
        /\ g.panel = screen[u].panel
    BY <1>0, <2>1
  <2>3. screen' = [screen EXCEPT ![u] = g] /\ UNCHANGED <<payload, intake, ticked>>
    BY <1>5, <2>1 DEF SaveCorrections, Loaded, ReviewInv
  <2>4. QED
    BY <1>0, <2>2, <2>3, ScreenGoesOn DEF ReviewInv
<1>6. ASSUME NEW u \in Reviewer, ResolveEntity(u) \/ RejectUnresolved(u)
      PROVE  ReviewInv'
  <2>1. GuessesFlagged(intake') /\ intake'.review # "data_verified"
    BY <1>0, <1>6 DEF ResolveEntity, RejectUnresolved, GuessesFlagged, ReviewRow, Final
  <2>2. PICK panel : /\ DOMAIN panel = {"open", "confirmed"}
                     /\ screen' = [screen EXCEPT ![u] =
                          [@ EXCEPT !.intake = intake', !.draft = draft', !.panel = panel]]
    <3>1. DOMAIN Closed = {"open", "confirmed"}
      BY DEF Closed
    <3>2. CASE ResolveEntity(u)
      <4>1. screen' = [screen EXCEPT ![u].intake = intake', ![u].draft = draft']
        BY <3>2 DEF ResolveEntity, Loaded
      <4>2. screen' = [screen EXCEPT ![u] =
              [@ EXCEPT !.intake = intake', !.draft = draft', !.panel = screen[u].panel]]
        <5>1. PICK h : h = [screen[u] EXCEPT !.intake = intake', !.draft = draft']
          OBVIOUS
        <5>2. h = [screen[u] EXCEPT !.intake = intake', !.draft = draft',
                                    !.panel = screen[u].panel]
          BY <1>0, <5>1
        <5>3. screen' = [screen EXCEPT ![u] = h]
          BY <4>1, <5>1 DEF ReviewInv
        <5>4. QED
          BY <5>2, <5>3
      <4>3. QED
        BY <1>0, <4>2
    <3>3. CASE RejectUnresolved(u)
      <4>1. screen' = [screen EXCEPT ![u] =
              [@ EXCEPT !.intake = intake', !.draft = draft', !.panel = Closed]]
        BY <3>3 DEF RejectUnresolved, Loaded, ReviewInv
      <4>2. QED
        BY <3>1, <4>1
    <3>4. QED
      BY <1>6, <3>2, <3>3
  <2>3. PICK g : g = [screen[u] EXCEPT !.intake = intake', !.draft = draft', !.panel = panel]
    OBVIOUS
  <2>4. /\ DOMAIN g = {"intake", "draft", "panel"} /\ g.intake = intake'
        /\ g.panel = panel
    BY <1>0, <2>3
  <2>5. screen' = [screen EXCEPT ![u] = g] /\ UNCHANGED <<payload, ticked>>
    BY <1>6, <2>2, <2>3 DEF ResolveEntity, RejectUnresolved, ReviewInv
  <2>6. QED
    BY <2>1, <2>2, <2>4, <2>5, ScreenGoesOn DEF ReviewInv
<1>7. CASE UNCHANGED intakeVars
  BY <1>7 DEF intakeVars, ReviewInv, GuessesFlagged, ScreenFits
<1>8. QED
  BY <1>1, <1>2, <1>3, <1>4, <1>5, <1>6, <1>7 DEF IntakeReviewNext

\* The Data Verified of a person rests on what that person confirmed, though
\* each reviewer acts on the rows their screen loaded last: an old screen of a
\* complete intake has its flags, and no screen shows a box less.
THEOREM GuessesAreConfirmedHolds == IntakeReviewSpec => []GuessesAreConfirmed
<1>1. ReviewInv => GuessesAreConfirmed
  BY GuessHasItsBox DEF ReviewInv, GuessesAreConfirmed
<1>2. QED
  BY <1>1, ReviewStart, ReviewStep, PTL DEF IntakeReviewSpec
-----------------------------------------------------------------------------
(* The review of an intake: types *)

DraftRow == [status : {"none", "draft"}, supplier : Supplier \cup {NoSupplier},
             due : Nat, total : Nat, subtotal : Nat, tax : Nat]
AllBoxes == {"due_date", "amount", "entity", "supplier", "duplicates"}

\* Whether an intake, or the copy of one on a screen, was refused shows.
Unrefused(row) == row.stage \notin {"sent", "refused"} => Accepted(payload)
ReviewTypes ==
  /\ payload \in Payload /\ Unrefused(intake) /\ draft \in DraftRow
  /\ \A u \in Reviewer : /\ screen[u].draft \in DraftRow /\ Unrefused(screen[u].intake)
                         /\ screen[u].panel.confirmed \subseteq AllBoxes

\* An amount that is stated in an accepted payload is not negative.
LEMMA StatedAmount ==
  ASSUME NEW p \in Payload, Accepted(p), NEW f \in Money
  PROVE  AmountOf(p, f) \in Nat \cup {NotStated}
<1>1. p.amount[f] \in Int
  BY DEF Payload
<1>2. ASSUME Stated(p, f)
      PROVE  p.amount[f] >= 0
  <2>1. Present(p, EnvelopeOf[f]) /\ p.class[f] \notin {"absent", "null", "blank"}
    BY <1>2 DEF Stated
  <2>2. f \in Field
    BY DEF Field
  <2>3. ~FieldRefused(p, f)
    BY <2>1, <2>2 DEF Accepted
  <2>4. f \notin Text /\ f \in {"subtotal", "tax_amount", "total_amount"}
    BY DEF Money, Text
  <2>5. ~AmountRefused(p.class[f], p.amount[f])
    BY <2>3, <2>4 DEF FieldRefused
  <2>6. p.class[f] = "plain"
    BY <2>1, <2>5 DEF AmountRefused
  <2> QED BY <2>5, <2>6, <1>1 DEF AmountRefused
<1> QED BY <1>1, <1>2 DEF AmountOf

\* An exact match names a supplier there is.
LEMMA ExactMatch ==
  ASSUME NEW p, SupplierMatch(p).status = "exact"
  PROVE  (CHOOSE s \in SupplierMatch(p).suppliers : TRUE) \in Supplier
<1>1. PICK found : found = {s \in Active : Stated(p, "registration_number") /\ SupplierOf[s].registration}
  OBVIOUS
<1>2. PICK exact : exact = {s \in Active : Stated(p, "name") /\ SupplierOf[s].similarity = 100}
  OBVIOUS
<1>3. PICK similar : similar = {s \in Active : Stated(p, "name") /\ SupplierOf[s].similarity >= 60}
  OBVIOUS
<1>4. SupplierMatch(p) =
        IF Cardinality(found) = 1
        THEN IF ~Stated(p, "name") \/ (\A s \in found : SupplierOf[s].similarity >= 30)
             THEN [status |-> "exact", suppliers |-> found]
             ELSE [status |-> "candidates", suppliers |-> found \cup similar]
        ELSE IF found = {} /\ Cardinality(exact) = 1
        THEN [status |-> "exact", suppliers |-> exact]
        ELSE [status |-> IF found \cup similar = {} THEN "none" ELSE "candidates",
              suppliers |-> found \cup similar]
  BY <1>1, <1>2, <1>3 DEF SupplierMatch
<1>5. \/ SupplierMatch(p).suppliers = found /\ Cardinality(found) = 1
      \/ SupplierMatch(p).suppliers = exact /\ Cardinality(exact) = 1
  BY <1>4
<1>6. Cardinality({}) = 0
  BY FS_EmptySet
<1>7. found \subseteq Supplier /\ exact \subseteq Supplier
  BY <1>1, <1>2 DEF Active
<1>8. SupplierMatch(p).suppliers # {} /\ SupplierMatch(p).suppliers \subseteq Supplier
  BY <1>5, <1>6, <1>7
<1> QED BY <1>8

\* What is proposed from an accepted payload is a draft.
LEMMA ProposalIsDraft ==
  ASSUME NEW p \in Payload, Accepted(p)
  PROVE  Proposal(p) \in DraftRow
<1>1. PICK total, subtotal, tax : /\ total = AmountOf(p, "total_amount")
                                  /\ subtotal = AmountOf(p, "subtotal")
                                  /\ tax = AmountOf(p, "tax_amount")
  OBVIOUS
<1>2. {"subtotal", "tax_amount", "total_amount"} \subseteq Money
  BY DEF Money
<1>3. {total, subtotal, tax} \subseteq Nat \cup {NotStated}
  BY <1>1, <1>2, StatedAmount
<1>4. Total(p) \in Nat
  BY <1>1, <1>3 DEF Total, NotStated
<1>5. DueDate(p) \in Nat
  BY DEF DueDate, BillDate, Payload
<1>6. ASSUME SupplierMatch(p).status = "exact"
      PROVE  (CHOOSE s \in SupplierMatch(p).suppliers : TRUE) \in Supplier
  BY <1>6, ExactMatch
<1>7. PICK chosen : chosen = IF SupplierMatch(p).status = "exact"
                             THEN CHOOSE s \in SupplierMatch(p).suppliers : TRUE ELSE NoSupplier
  OBVIOUS
<1>8. chosen \in Supplier \cup {NoSupplier}
  BY <1>6, <1>7
<1>9. Proposal(p) = [status |-> "draft", supplier |-> chosen, due |-> DueDate(p),
                     total |-> Total(p),
                     subtotal |-> IF subtotal = NotStated THEN Total(p) ELSE subtotal,
                     tax |-> IF tax = NotStated THEN 0 ELSE tax]
  BY <1>1, <1>7 DEF Proposal
<1> QED BY <1>3, <1>4, <1>5, <1>8, <1>9 DEF DraftRow

\* One screen changes: it shows the rows, or what it showed, and boxes ticked.
LEMMA ScreenTyped ==
  ASSUME ReviewInv, ReviewTypes, payload' = payload, Unrefused(intake'), draft' \in DraftRow,
         NEW u \in Reviewer, NEW g, screen' = [screen EXCEPT ![u] = g],
         g.intake \in {screen[u].intake, intake'}, g.draft \in DraftRow,
         g.panel.confirmed \subseteq AllBoxes
  PROVE  ReviewTypes'
<1>1. \A row : Unrefused(row)' <=> Unrefused(row)
  BY DEF Unrefused
<1>2. /\ screen'[u] = g
      /\ \A v \in Reviewer \ {u} : screen'[v] = screen[v]
  BY DEF ReviewInv
<1>3. ASSUME NEW v \in Reviewer
      PROVE  /\ screen'[v].draft \in DraftRow /\ Unrefused(screen'[v].intake)
             /\ screen'[v].panel.confirmed \subseteq AllBoxes
  BY <1>2 DEF ReviewTypes
<1>4. \A v \in Reviewer : Unrefused(screen[v].intake)'
  BY <1>3 DEF Unrefused
<1>5. Unrefused(intake)'
  BY DEF Unrefused
<1> QED BY <1>3, <1>4, <1>5 DEF ReviewTypes

LEMMA ReviewTypesStart ==
  ASSUME IntakeReviewInit
  PROVE  ReviewTypes
<1>1. payload \in Payload
  BY ReviewAssumption DEF IntakeReviewInit
<1>2. NoDraft \in DraftRow
  BY DEF NoDraft, DraftRow
<1>3. Unrefused(intake)
  BY DEF IntakeReviewInit, Unrefused
<1>4. draft = NoDraft /\ \A u \in Reviewer :
        screen[u] = [intake |-> intake, draft |-> draft, panel |-> Closed]
  BY DEF IntakeReviewInit
<1> QED BY <1>1, <1>2, <1>3, <1>4 DEF ReviewTypes, Closed

LEMMA ReviewTypesStep ==
  ASSUME ReviewInv, ReviewTypes, [IntakeReviewNext]_intakeVars
  PROVE  ReviewTypes'
<1>0. ASSUME NEW u \in Reviewer
      PROVE  /\ DOMAIN screen[u] = {"intake", "draft", "panel"}
             /\ DOMAIN screen[u].panel = {"open", "confirmed"}
             /\ screen[u].draft \in DraftRow /\ Unrefused(screen[u].intake)
             /\ screen[u].panel.confirmed \subseteq AllBoxes
  BY DEF ReviewInv, ScreenFits, ReviewTypes
<1>1. ASSUME UNCHANGED <<payload, screen>>, Unrefused(intake'), draft' \in DraftRow
      PROVE  ReviewTypes'
  BY <1>1 DEF ReviewTypes, Unrefused
<1>2. intake \in ReviewRow /\ Unrefused(intake) /\ draft \in DraftRow /\ payload \in Payload
  BY DEF ReviewInv, GuessesFlagged, ReviewTypes
<1>3. CASE Receive
  <2>1. Unrefused(intake')
    BY <1>2, <1>3 DEF Receive, Unrefused, ReviewRow
  <2> QED BY <1>1, <1>2, <1>3, <2>1 DEF Receive
<1>4. CASE CreateBill
  <2>1. Accepted(payload)
    BY <1>2, <1>4 DEF CreateBill, Unrefused
  <2>2. draft' \in DraftRow
    BY <1>2, <1>4, <2>1, ProposalIsDraft DEF CreateBill
  <2>3. UNCHANGED <<payload, screen>>
    BY <1>4, Zenon DEF CreateBill
  <2> QED BY <1>1, <2>1, <2>2, <2>3 DEF Unrefused
<1>5. ASSUME NEW u \in Reviewer, Load(u)
      PROVE  ReviewTypes'
  <2>1. PICK g : g = [screen[u] EXCEPT !.intake = intake, !.draft = draft]
    OBVIOUS
  <2>2. g.intake = intake /\ g.draft = draft /\ g.panel = screen[u].panel
    BY <1>0, <2>1
  <2>3. screen' = [screen EXCEPT ![u] = g] /\ UNCHANGED <<payload, intake, draft>>
    BY <1>5, <2>1 DEF Load, ReviewInv
  <2> QED BY <1>0, <1>2, <2>2, <2>3, ScreenTyped
<1>6. ASSUME NEW u \in Reviewer, Toggle(u) \/ \E b \in AllBoxes : Tick(u, b)
      PROVE  ReviewTypes'
  <2>1. PICK panel : /\ DOMAIN panel = {"open", "confirmed"}
                     /\ panel.confirmed \subseteq AllBoxes
                     /\ screen' = [screen EXCEPT ![u].panel = panel]
    <3>1. CASE Toggle(u)
      <4>1. PICK panel : panel = [Closed EXCEPT !.open = ~screen[u].panel.open]
        OBVIOUS
      <4>2. DOMAIN panel = {"open", "confirmed"} /\ panel.confirmed = {}
        BY <4>1 DEF Closed
      <4>3. screen' = [screen EXCEPT ![u].panel = panel]
        BY <3>1, <4>1, Zenon DEF Toggle
      <4> QED BY <4>2, <4>3
    <3>2. ASSUME NEW b \in AllBoxes, Tick(u, b)
          PROVE  \E panel : /\ DOMAIN panel = {"open", "confirmed"}
                            /\ panel.confirmed \subseteq AllBoxes
                            /\ screen' = [screen EXCEPT ![u].panel = panel]
      <4>1. PICK panel : panel = [screen[u].panel EXCEPT !.confirmed =
                                    screen[u].panel.confirmed \cup {b}]
        OBVIOUS
      <4>2. screen' = [screen EXCEPT ![u].panel = panel]
        BY <3>2, <4>1 DEF Tick
      <4> QED BY <1>0, <4>1, <4>2
    <3> QED BY <1>6, <3>1, <3>2
  <2>2. PICK g : g = [screen[u] EXCEPT !.panel = panel]
    OBVIOUS
  <2>3. g.intake = screen[u].intake /\ g.draft = screen[u].draft /\ g.panel = panel
    BY <1>0, <2>2
  <2>4. screen' = [screen EXCEPT ![u] = g] /\ UNCHANGED <<payload, intake, draft>>
    BY <1>6, <2>1, <2>2 DEF Toggle, Tick, ReviewInv
  <2> QED BY <1>0, <1>2, <2>1, <2>3, <2>4, ScreenTyped
<1>7. ASSUME NEW u \in Reviewer, NEW s \in Supplier \cup {NoSupplier}, NEW d \in TypedDay,
             NEW t \in TypedTotal, SaveCorrections(u, s, d, t)
      PROVE  ReviewTypes'
  <2>1. d \in Nat /\ t \in Nat
    BY ReviewAssumption
  <2>2. screen[u].draft.tax \in Nat
    BY <1>0 DEF DraftRow
  <2>3. PICK subtotal : subtotal = IF t > screen[u].draft.tax THEN t - screen[u].draft.tax ELSE 0
    OBVIOUS
  <2>4. subtotal \in Nat
    BY <2>1, <2>2, <2>3
  <2>5. draft' = [draft EXCEPT !.supplier = s, !.due = d, !.total = t, !.subtotal = subtotal]
    BY <1>7, <2>3 DEF SaveCorrections
  <2>6. draft' \in DraftRow
    BY <1>2, <2>1, <2>4, <2>5 DEF DraftRow
  <2>7. PICK g : g = [screen[u] EXCEPT !.intake = intake', !.draft = draft']
    OBVIOUS
  <2>8. g.intake = intake' /\ g.draft = draft' /\ g.panel = screen[u].panel
    BY <1>0, <2>7
  <2>9. screen' = [screen EXCEPT ![u] = g] /\ UNCHANGED <<payload, intake>>
    BY <1>7, <2>7 DEF SaveCorrections, Loaded, ReviewInv
  <2> QED BY <1>0, <1>2, <2>6, <2>8, <2>9, ScreenTyped
<1>8. ASSUME NEW u \in Reviewer, Unrefused(intake'), draft' = draft, payload' = payload,
             NEW panel, panel \in {screen[u].panel, Closed},
             screen' = [screen EXCEPT ![u] =
               [screen[u] EXCEPT !.intake = intake', !.draft = draft', !.panel = panel]]
      PROVE  ReviewTypes'
  <2>1. PICK g : g = [screen[u] EXCEPT !.intake = intake', !.draft = draft', !.panel = panel]
    OBVIOUS
  <2>2. g.intake = intake' /\ g.draft = draft /\ g.panel = panel
    BY <1>0, <1>8, <2>1
  <2>3. panel.confirmed \subseteq AllBoxes
    BY <1>0, <1>8 DEF Closed
  <2> QED BY <1>2, <1>8, <2>1, <2>2, <2>3, ScreenTyped
<1>9. ASSUME NEW u \in Reviewer, NEW target, SetReview(u, target)
      PROVE  ReviewTypes'
  <2>1. intake' = [intake EXCEPT !.review = target] /\ draft' = draft /\ payload' = payload
    BY <1>9 DEF SetReview
  <2>2. Unrefused(intake')
    BY <1>2, <2>1 DEF Unrefused, ReviewRow
  <2>3. screen' = [screen EXCEPT ![u] =
          [screen[u] EXCEPT !.intake = intake', !.draft = draft', !.panel = Closed]]
    BY <1>9 DEF SetReview, Loaded, ReviewInv
  <2> QED BY <1>8, <2>1, <2>2, <2>3
<1>10. ASSUME NEW u \in Reviewer, ResolveEntity(u) \/ RejectUnresolved(u)
       PROVE  ReviewTypes'
  <2>1. Accepted(payload)
    BY <1>0, <1>10 DEF ResolveEntity, RejectUnresolved, Unrefused
  <2>2. draft' = draft /\ payload' = payload
    BY <1>10 DEF ResolveEntity, RejectUnresolved
  <2>3. CASE ResolveEntity(u)
    <3>1. PICK g : g = [screen[u] EXCEPT !.intake = intake', !.draft = draft']
      OBVIOUS
    <3>2. g.intake = intake' /\ g.draft = draft' /\ g.panel = screen[u].panel
      BY <1>0, <3>1
    <3>3. screen' = [screen EXCEPT ![u] = g]
      BY <2>3, <3>1 DEF ResolveEntity, Loaded, ReviewInv
    <3>4. Unrefused(intake')
      BY <2>1 DEF Unrefused
    <3> QED BY <1>0, <1>2, <2>2, <3>2, <3>3, <3>4, ScreenTyped
  <2>4. CASE RejectUnresolved(u)
    <3>1. screen' = [screen EXCEPT ![u] =
            [screen[u] EXCEPT !.intake = intake', !.draft = draft', !.panel = Closed]]
      BY <2>4 DEF RejectUnresolved, Loaded, ReviewInv
    <3>2. Unrefused(intake')
      BY <2>1 DEF Unrefused
    <3> QED BY <1>8, <2>2, <3>1, <3>2
  <2> QED BY <1>10, <2>3, <2>4
<1>11. CASE UNCHANGED intakeVars
  BY <1>11 DEF intakeVars, ReviewTypes, Unrefused
<1> QED BY <1>3, <1>4, <1>5, <1>6, <1>7, <1>9, <1>10, <1>11 DEF IntakeReviewNext, AllBoxes

LEMMA ReviewIsTyped == ReviewInv /\ ReviewTypes => IntakeReviewTypeOK
BY DEF ReviewInv, ReviewTypes, GuessesFlagged, ReviewRow, DraftRow, AllBoxes, IntakeReviewTypeOK

\* A bill is proposed only from a payload that was accepted, however late a
\* screen resolves the entity, so its amounts are never negative and its
\* supplier is one there is (parse-bill-intake.ts, proposal.ts, the review page).
THEOREM IntakeReviewTypeCorrect == IntakeReviewSpec => []IntakeReviewTypeOK
<1>1. IntakeReviewInit => ReviewInv /\ ReviewTypes
  BY ReviewStart, ReviewTypesStart
<1>2. ReviewInv /\ ReviewTypes /\ [IntakeReviewNext]_intakeVars => ReviewInv' /\ ReviewTypes'
  BY ReviewStep, ReviewTypesStep
<1> QED BY <1>1, <1>2, ReviewIsTyped, PTL DEF IntakeReviewSpec

-----------------------------------------------------------------------------
(* Students, programmes, intakes and enrolments: types *)

StudentRow == [status : StudentStatus, home : Branch, edited : BOOLEAN]
ProgrammeRow == [status : ProgrammeStatus, low : Day, high : Day]

\* What a request writes is a row the checks of its route have passed.
IntakeFits(row) == row \in IntakeRow /\ (row.expected = 0 \/ row.expected >= row.start)
EnrolmentFits(row) == row \in EnrolmentRow /\ row.paid <= row.fee
RecordKnown(c) ==
  \/ c = NoRecordCall
  \/ c \in [doing : {"intake"}, id : Intake, row : IntakeRow] /\ IntakeFits(c.row)
  \/ /\ c \in [doing : {"enrolment"}, id : Enrolment, intake : Intake, row : EnrolmentRow]
     /\ EnrolmentFits(c.row)
Registers == students \in [Student -> StudentRow] /\ documentLinks \subseteq Student
             /\ mergeEvents \subseteq Student \X Student
Studies == /\ programmes \in [Programme -> ProgrammeRow]
           /\ intakes \in [Intake -> IntakeRow] /\ \A i \in Intake : IntakeFits(intakes[i])
           /\ enrolments \in [Enrolment -> EnrolmentRow]
           /\ \A e \in Enrolment : EnrolmentFits(enrolments[e])
RecordsHeld == /\ recordCalls = [q \in RecordCall |-> recordCalls[q]]
               /\ \A q \in RecordCall : RecordKnown(recordCalls[q])
RecordTypes == Registers /\ Studies /\ RecordsHeld

LEMMA MissingRowsAreTyped ==
  /\ SomeBranch \in Branch
  /\ NoStudentRow \in StudentRow /\ NoProgrammeRow \in ProgrammeRow
  /\ IntakeFits(NoIntakeRow) /\ EnrolmentFits(NoEnrolmentRow)
<1>1. SomeBranch \in Branch
  BY StudentRecordsAssumption DEF SomeBranch
<1>2. 0 \in Day /\ -1 \in Fee
  BY StudentRecordsAssumption DEF Day, Fee
<1>3. NoStudentRow \in StudentRow
  BY <1>1 DEF NoStudentRow, StudentRow, StudentStatus
<1>4. NoProgrammeRow \in ProgrammeRow
  BY <1>2 DEF NoProgrammeRow, ProgrammeRow, ProgrammeStatus
<1>5. IntakeFits(NoIntakeRow)
  BY <1>1, <1>2 DEF NoIntakeRow, IntakeFits, IntakeRow, IntakeStatus
<1>6. EnrolmentFits(NoEnrolmentRow)
  BY <1>1, <1>2 DEF NoEnrolmentRow, EnrolmentFits, EnrolmentRow, RegistrationStatus
<1> QED BY <1>1, <1>3, <1>4, <1>5, <1>6

LEMMA RecordTypesStart ==
  ASSUME StudentRecordsInit
  PROVE  RecordTypes
<1>1. Registers
  BY MissingRowsAreTyped DEF StudentRecordsInit, Registers
<1>2. Studies
  BY MissingRowsAreTyped DEF StudentRecordsInit, Studies, IntakeFits, EnrolmentFits
<1>3. RecordsHeld
  BY DEF StudentRecordsInit, RecordsHeld, RecordKnown
<1> QED BY <1>1, <1>2, <1>3 DEF RecordTypes

\* An update keeps the type of the row of a student.
LEMMA UpdatedStudent ==
  ASSUME NEW row \in StudentRow, NEW late \in BOOLEAN
  PROVE  Updated(row, late) \in StudentRow
<1>1. (row.edited \/ late) \in BOOLEAN
  BY DEF StudentRow
<1>2. Updated(row, late) = [row EXCEPT !.edited = row.edited \/ late]
  BY Zenon DEF Updated
<1> QED BY <1>1, <1>2 DEF StudentRow

LEMMA StudentsTyped ==
  ASSUME RecordTypes, StudentStep
  PROVE  RecordTypes'
<1>1. ASSUME NEW s \in Student, NEW row \in StudentRow,
             students' = [students EXCEPT ![s] = row],
             UNCHANGED <<documentLinks, mergeEvents>>
      PROVE  Registers'
  BY <1>1 DEF RecordTypes, Registers
<1>2. ASSUME NEW s \in Student, NEW home \in Branch, NEW requested \in Requested,
             NEW asDraft \in BOOLEAN, NEW missing \in BOOLEAN, NEW late \in BOOLEAN,
             SaveStudent(s, home, asDraft, requested, missing, late)
      PROVE  Registers' /\ UNCHANGED studyVars
  <2>1. PICK status : status = Lifecycle(asDraft, requested, missing)
    OBVIOUS
  <2>2. status \in StudentStatus
    BY <2>1 DEF Lifecycle, Requested, StudentStatus
  <2>3. PICK was : was = [students[s] EXCEPT !.home = home, !.status = status]
    OBVIOUS
  <2>4. was \in StudentRow
    BY <2>2, <2>3 DEF RecordTypes, Registers, StudentRow
  <2>5. students' = [students EXCEPT ![s] = IF s \in Known THEN Updated(was, late) ELSE was]
    BY <1>2, <2>1, <2>3 DEF SaveStudent, RecordTypes, Registers
  <2>6. PICK row : row = IF s \in Known THEN Updated(was, late) ELSE was
    OBVIOUS
  <2>7. row \in StudentRow
    BY <2>4, <2>6, UpdatedStudent
  <2> QED BY <1>1, <1>2, <2>5, <2>6, <2>7 DEF SaveStudent
<1>3. ASSUME NEW s \in Student, NEW action, NEW late \in BOOLEAN, RecordAction(s, action, late)
      PROVE  Registers' /\ UNCHANGED studyVars
  <2>1. PICK was : was = IF action = "archive" THEN [students[s] EXCEPT !.status = "archived"]
                         ELSE students[s]
    OBVIOUS
  <2>2. was \in StudentRow
    BY <2>1 DEF RecordTypes, Registers, StudentRow, StudentStatus
  <2>3. students' = [students EXCEPT ![s] = Updated(was, late)]
    BY <1>3, <2>1 DEF RecordAction, RecordTypes, Registers
  <2> QED BY <1>1, <1>3, <2>2, <2>3, UpdatedStudent DEF RecordAction
<1>4. ASSUME NEW s \in Student, LinkDocument(s)
      PROVE  Registers' /\ UNCHANGED studyVars
  BY <1>4 DEF LinkDocument, RecordTypes, Registers
<1>5. ASSUME Registers', UNCHANGED studyVars
      PROVE  RecordTypes'
  BY <1>5 DEF RecordTypes, Studies, RecordsHeld, studyVars
<1> QED BY <1>2, <1>3, <1>4, <1>5 DEF StudentStep

LEMMA MergeTyped ==
  ASSUME RecordTypes, NEW source \in Student, NEW target \in Student, NEW late \in BOOLEAN,
         MergeStudents(source, target, late)
  PROVE  RecordTypes'
<1>1. PICK row : row = Updated([students[source] EXCEPT !.status = "merged"], late)
  OBVIOUS
<1>2. [students[source] EXCEPT !.status = "merged"] \in StudentRow
  BY DEF RecordTypes, Registers, StudentRow, StudentStatus
<1>3. students' = [students EXCEPT ![source] = row]
  BY <1>1 DEF MergeStudents, RecordTypes, Registers
<1>4. students' \in [Student -> StudentRow]
  BY <1>1, <1>2, <1>3, UpdatedStudent DEF RecordTypes, Registers
<1>5. Registers'
  BY <1>4 DEF MergeStudents, RecordTypes, Registers
<1>6. enrolments' = [e \in Enrolment |->
        IF enrolments[e].student = source
        THEN [enrolments[e] EXCEPT !.student = target] ELSE enrolments[e]]
  BY DEF MergeStudents
<1>7. ASSUME NEW e \in Enrolment
      PROVE  EnrolmentFits(enrolments'[e])
  <2>1. PICK moved : moved = [enrolments[e] EXCEPT !.student = target]
    OBVIOUS
  <2>2. EnrolmentFits(enrolments[e])
    BY DEF RecordTypes, Studies
  <2>3. EnrolmentFits(moved)
    BY <2>1, <2>2 DEF EnrolmentFits, EnrolmentRow
  <2> QED BY <1>6, <2>1, <2>2, <2>3
<1>8. Studies'
  BY <1>6, <1>7 DEF MergeStudents, RecordTypes, Studies, EnrolmentFits
<1>9. RecordsHeld'
  BY DEF MergeStudents, RecordTypes, RecordsHeld
<1> QED BY <1>5, <1>8, <1>9 DEF RecordTypes

\* A request takes up, or ends with, what it holds.
LEMMA RecordHeld ==
  ASSUME RecordTypes, NEW q, NEW c, RecordKnown(c),
         recordCalls' = [recordCalls EXCEPT ![q] = c]
  PROVE  RecordsHeld'
BY DEF RecordTypes, RecordsHeld

LEMMA NoRecordIsKnown == RecordKnown(NoRecordCall)
BY DEF RecordKnown

LEMMA StudyTyped ==
  ASSUME RecordTypes, StudyStep
  PROVE  RecordTypes'
<1>0. ASSUME Studies', RecordsHeld', UNCHANGED <<students, documentLinks, mergeEvents>>
      PROVE  RecordTypes'
  BY <1>0 DEF RecordTypes, Registers
<1>1. ASSUME NEW p \in Programme, NEW asDraft \in BOOLEAN, NEW requested \in ProgrammeStatus,
             NEW low \in Day, NEW high \in Day, SaveProgramme(p, asDraft, requested, low, high)
      PROVE  RecordTypes'
  <2>1. PICK status : status = CASE asDraft -> "draft"
                                 [] ~asDraft /\ requested = "draft" -> "active"
                                 [] OTHER -> requested
    OBVIOUS
  <2>2. status \in ProgrammeStatus
    BY <2>1 DEF ProgrammeStatus
  <2>3. [status |-> status, low |-> low, high |-> high] \in ProgrammeRow
    BY <2>2 DEF ProgrammeRow
  <2>4. programmes' = [programmes EXCEPT ![p] = [status |-> status, low |-> low, high |-> high]]
    BY <1>1, <2>1 DEF SaveProgramme
  <2>5. Studies'
    BY <1>1, <2>3, <2>4 DEF SaveProgramme, RecordTypes, Studies
  <2> QED BY <1>0, <1>1, <2>5 DEF SaveProgramme, RecordTypes, RecordsHeld
<1>2. ASSUME NEW q \in RecordCall, NEW i \in Intake, NEW p \in Programme, NEW branch \in Branch,
             NEW status \in IntakeStatus, NEW start \in Day, NEW expected \in Day, NEW reason,
             ReadIntake(q, i, p, branch, status, start, expected, reason)
      PROVE  RecordTypes'
  <2>1. PICK original : original = IF intakes[i].original # 0 THEN intakes[i].original
                                   ELSE IF intakes[i].expected # 0 THEN intakes[i].expected
                                   ELSE expected
    OBVIOUS
  <2>2. original \in Day
    BY <2>1 DEF RecordTypes, Studies, IntakeRow
  <2>3. PICK row : row = [status |-> status, programme |-> p, branch |-> branch,
                          start |-> start, expected |-> expected, original |-> original]
    OBVIOUS
  <2>4. IntakeFits(row)
    BY <1>2, <2>2, <2>3, StudentRecordsAssumption
       DEF IntakeFits, IntakeRow, ReadIntake, IntakeDatesFit, Day
  <2>5. recordCalls' = [recordCalls EXCEPT ![q] = [doing |-> "intake", id |-> i, row |-> row]]
    BY <1>2, <2>1, <2>3, Zenon DEF ReadIntake
  <2>6. RecordKnown([doing |-> "intake", id |-> i, row |-> row])
    BY <2>4 DEF RecordKnown, IntakeFits
  <2>7. RecordsHeld'
    BY <2>5, <2>6, RecordHeld
  <2>8. UNCHANGED <<students, documentLinks, mergeEvents, programmes, intakes, enrolments>>
    BY <1>2, Zenon DEF ReadIntake
  <2> QED BY <1>0, <2>7, <2>8 DEF RecordTypes, Studies
<1>3. ASSUME NEW q \in RecordCall, WriteIntake(q)
      PROVE  RecordTypes'
  <2>1. RecordKnown(recordCalls[q]) /\ recordCalls[q].doing = "intake"
    BY <1>3 DEF WriteIntake, RecordTypes, RecordsHeld
  <2>2. PICK i, row : i = recordCalls[q].id /\ row = recordCalls[q].row
    OBVIOUS
  <2>3. i \in Intake /\ IntakeFits(row)
    BY <2>1, <2>2 DEF RecordKnown, NoRecordCall
  <2>4. intakes' = [intakes EXCEPT ![i] = row]
    BY <1>3, <2>2 DEF WriteIntake
  <2>5. Studies'
    BY <1>3, <2>3, <2>4 DEF WriteIntake, RecordTypes, Studies, IntakeFits
  <2> QED BY <1>0, <1>3, <2>5, NoRecordIsKnown, RecordHeld DEF WriteIntake
<1>4. ASSUME NEW q \in RecordCall, NEW e \in Enrolment, NEW s \in Student, NEW i \in Intake,
             NEW status \in EnrolmentStatus, NEW amount \in Fee, NEW paid \in Fee,
             NEW submitted \in RegistrationStatus,
             ReadEnrolment(q, e, s, i, status, amount, paid, submitted)
      PROVE  RecordTypes'
  <2>1. PICK registration : registration = Registration(submitted, amount, paid)
    OBVIOUS
  <2>2. registration \in RegistrationStatus
    BY <2>1 DEF Registration, RegistrationStatus
  <2>3. PICK row : row = [status |-> status, student |-> s, programme |-> intakes[i].programme,
                          branch |-> intakes[i].branch, fee |-> amount, paid |-> paid,
                          registration |-> registration]
    OBVIOUS
  <2>4. paid <= amount
    BY <1>4, StudentRecordsAssumption DEF ReadEnrolment, FeeFits, Fee
  <2>5. intakes[i].programme \in Programme \cup {NoProgramme} /\ intakes[i].branch \in Branch
    BY DEF RecordTypes, Studies, IntakeRow
  <2>6. EnrolmentFits(row)
    BY <2>2, <2>3, <2>4, <2>5 DEF EnrolmentFits, EnrolmentRow
  <2>7. recordCalls' = [recordCalls EXCEPT ![q] =
                          [doing |-> "enrolment", id |-> e, intake |-> i, row |-> row]]
    BY <1>4, <2>1, <2>3, Zenon DEF ReadEnrolment
  <2>8. RecordKnown([doing |-> "enrolment", id |-> e, intake |-> i, row |-> row])
    BY <2>6 DEF RecordKnown, EnrolmentFits
  <2>9. RecordsHeld'
    BY <2>7, <2>8, RecordHeld
  <2>10. UNCHANGED <<students, documentLinks, mergeEvents, programmes, intakes, enrolments>>
    BY <1>4, Zenon DEF ReadEnrolment
  <2> QED BY <1>0, <2>9, <2>10 DEF RecordTypes, Studies
<1>5. ASSUME NEW q \in RecordCall, WriteEnrolment(q)
      PROVE  RecordTypes'
  <2>1. RecordKnown(recordCalls[q]) /\ recordCalls[q].doing = "enrolment"
    BY <1>5 DEF WriteEnrolment, RecordTypes, RecordsHeld
  <2>2. PICK e, row : e = recordCalls[q].id /\ row = recordCalls[q].row
    OBVIOUS
  <2>3. e \in Enrolment /\ EnrolmentFits(row)
    BY <2>1, <2>2 DEF RecordKnown, NoRecordCall
  <2>4. enrolments' = [enrolments EXCEPT ![e] = row] \/ enrolments' = enrolments
    BY <1>5, <2>2 DEF WriteEnrolment
  <2>5. UNCHANGED <<students, documentLinks, mergeEvents, programmes, intakes>>
    BY <1>5, Zenon DEF WriteEnrolment
  <2>6. Studies'
    BY <2>3, <2>4, <2>5 DEF RecordTypes, Studies, EnrolmentFits
  <2> QED BY <1>0, <1>5, <2>5, <2>6, NoRecordIsKnown, RecordHeld DEF WriteEnrolment
<1>6. ASSUME NEW q \in RecordCall, RecordCallDies(q)
      PROVE  RecordTypes'
  <2>1. RecordsHeld'
    BY <1>6, NoRecordIsKnown, RecordHeld DEF RecordCallDies
  <2> QED BY <1>0, <1>6, <2>1 DEF RecordCallDies, RecordTypes, Studies
<1> QED BY <1>1, <1>2, <1>3, <1>4, <1>5, <1>6, Zenon DEF StudyStep

LEMMA RecordTypesStep ==
  ASSUME RecordTypes, [StudentRecordsNext]_studentRecordVars
  PROVE  RecordTypes'
<1>1. CASE UNCHANGED studentRecordVars
  BY <1>1 DEF studentRecordVars, RecordTypes, Registers, Studies, RecordsHeld
<1> QED BY <1>1, StudentsTyped, StudyTyped, MergeTyped DEF StudentRecordsNext

LEMMA RecordsAreTyped == RecordTypes => StudentRecordsTypeOK
<1> SUFFICES ASSUME RecordTypes
             PROVE  StudentRecordsTypeOK
  OBVIOUS
<1>1. ASSUME NEW q \in RecordCall
      PROVE  \/ recordCalls[q] = NoRecordCall
             \/ recordCalls[q].doing = "intake" /\ recordCalls[q].row \in IntakeRow
             \/ recordCalls[q].doing = "enrolment" /\ recordCalls[q].row \in EnrolmentRow
  <2>1. RecordKnown(recordCalls[q])
    BY DEF RecordTypes, RecordsHeld
  <2> QED BY <2>1 DEF RecordKnown
<1> QED BY <1>1 DEF StudentRecordsTypeOK, RecordTypes, Registers, Studies, StudentRow,
                    ProgrammeRow, IntakeFits, EnrolmentFits

\* Whatever is saved in what order: a stored intake has its dates in order and
\* an enrolment was not paid more than its fee, as the row a route writes is
\* the one it has checked (the intake and enrolment routes).
THEOREM StudentRecordsTypeCorrect == StudentRecordsSpec => []StudentRecordsTypeOK
BY RecordsAreTyped, RecordTypesStart, RecordTypesStep, PTL DEF StudentRecordsSpec

-----------------------------------------------------------------------------
(* The import of students: types *)

ImportBatchRow == [status : StudentBatchStatus, mode : {"standard", "legacy"}]
ImportedRow == [batch : ImportBatch \cup {"none"}, status : RowStatus,
                created : Student \cup {NoStudent}]

\* What a parse holds, and what a confirmation does.
Parses(c) ==
  /\ DOMAIN c = {"step", "batch", "rows"}
  /\ c.step \in {"clear", "replace", "insert"} /\ c.batch \in ImportBatch
Confirms(c) ==
  /\ DOMAIN c = {"step", "batch", "rows", "todo", "done", "failed"}
  /\ c.step \in {"start", "row"} /\ c.batch \in ImportBatch /\ c.todo \subseteq ImportRow
ImportKnown(c) == c = NoImportCall \/ Parses(c) \/ Confirms(c)

ImportStores == /\ importBatches \in [ImportBatch -> ImportBatchRow]
                /\ importRows \in [ImportRow -> ImportedRow]
                /\ legacyRecords \subseteq ImportBatch \X Student
PreviewKept == /\ DOMAIN importScreen = {"batch", "rows"}
               /\ importScreen.batch \in ImportBatch \cup {"none"}
               /\ DOMAIN importScreen.rows \subseteq ImportRow
ImportsHeld == /\ importCalls = [q \in ImportCall |-> importCalls[q]]
               /\ \A q \in ImportCall : ImportKnown(importCalls[q])
RevertsKnown == /\ DOMAIN reverting \subseteq ImportBatch
                /\ \A b \in DOMAIN reverting :
                     reverting[b] \in [blocked : SUBSET ImportRow, idle : SUBSET Student]
ImportTypes == ImportStores /\ PreviewKept /\ ImportsHeld /\ RevertsKnown

LEMMA NoImportsAreTyped ==
  /\ NoImportBatch \in ImportBatchRow /\ NoImportRow \in ImportedRow
  /\ DOMAIN NoImportScreen = {"batch", "rows"} /\ NoImportScreen.batch = "none"
  /\ DOMAIN NoImportScreen.rows = {}
<1>1. NoImportBatch \in ImportBatchRow /\ NoImportRow \in ImportedRow
  BY DEF NoImportBatch, ImportBatchRow, StudentBatchStatus, NoImportRow, ImportedRow, RowStatus
<1>2. DOMAIN NoImportScreen = {"batch", "rows"} /\ NoImportScreen.batch = "none"
      /\ DOMAIN NoImportScreen.rows = {}
  BY DEF NoImportScreen
<1> QED BY <1>1, <1>2

LEMMA ImportTypesStart ==
  ASSUME StudentImportInit
  PROVE  ImportTypes
BY NoImportsAreTyped DEF StudentImportInit, ImportTypes, ImportStores, PreviewKept,
                         ImportsHeld, ImportKnown, RevertsKnown

\* A request takes up, or ends with, what it holds.
LEMMA ImportHeld ==
  ASSUME ImportTypes, NEW q, NEW c, ImportKnown(c),
         importCalls' = [importCalls EXCEPT ![q] = c]
  PROVE  ImportsHeld'
BY DEF ImportTypes, ImportsHeld

LEMMA NoImportIsKnown == ImportKnown(NoImportCall)
BY DEF ImportKnown

\* A request goes to its next step with what it holds.
LEMMA ImportGoesOn ==
  ASSUME ImportTypes, NEW q \in ImportCall, NEW step,
         importCalls' = [importCalls EXCEPT ![q].step = step],
         \/ importCalls[q].step \in {"clear", "replace"} /\ step \in {"replace", "insert"}
         \/ importCalls[q].step = "start" /\ step = "row"
  PROVE  ImportsHeld' /\ importCalls[q].batch \in ImportBatch
<1>1. ImportKnown(importCalls[q])
  BY DEF ImportTypes, ImportsHeld
<1>2. PICK c : c = [importCalls[q] EXCEPT !.step = step]
  OBVIOUS
<1>3. importCalls' = [importCalls EXCEPT ![q] = c]
  BY <1>2 DEF ImportTypes, ImportsHeld
<1>4. ImportKnown(c) /\ importCalls[q].batch \in ImportBatch
  BY <1>1, <1>2 DEF ImportKnown, Parses, Confirms, NoImportCall
<1> QED BY <1>3, <1>4, ImportHeld

\* The status of a batch is written, or a row.
LEMMA BatchStatusTyped ==
  ASSUME ImportTypes, NEW b, NEW status \in StudentBatchStatus,
         importBatches' = [importBatches EXCEPT ![b].status = status],
         UNCHANGED <<importRows, legacyRecords>>
  PROVE  ImportStores'
<1>1. PICK row : row = [importBatches[b] EXCEPT !.status = status]
  OBVIOUS
<1>2. importBatches' = [importBatches EXCEPT ![b] = row]
  BY <1>1 DEF ImportTypes, ImportStores
<1>3. b \in ImportBatch => row \in ImportBatchRow
  BY <1>1 DEF ImportTypes, ImportStores, ImportBatchRow
<1> QED BY <1>2, <1>3 DEF ImportTypes, ImportStores

LEMMA ParseTypes ==
  ASSUME ImportTypes, NEW q \in ImportCall, ParseStep(q)
  PROVE  ImportTypes'
<1>1. ASSUME NEW f, NEW mode \in ImportMode, NEW similar, ParseNew(q, f, mode, similar)
      PROVE  ImportTypes'
  <2>1. PICK b \in ImportBatch :
          /\ importBatches' = [importBatches EXCEPT ![b] = [status |-> "mapping", mode |-> mode]]
          /\ importCalls' = [importCalls EXCEPT ![q] =
               [step |-> "insert", batch |-> b,
                rows |-> [n \in DOMAIN f |-> PreviewOf(f[n], similar)]]]
    BY <1>1, Zenon DEF ParseNew
  <2>2. UNCHANGED <<importRows, legacyRecords, importScreen, reverting>>
    BY <1>1, Zenon DEF ParseNew
  <2>3. [status |-> "mapping", mode |-> mode] \in ImportBatchRow
    BY StudentImportAssumption DEF ImportBatchRow, StudentBatchStatus
  <2>4. ImportStores'
    BY <2>1, <2>2, <2>3 DEF ImportTypes, ImportStores
  <2>5. PICK seen : seen = [n \in DOMAIN f |-> PreviewOf(f[n], similar)]
    OBVIOUS
  <2>6. ImportKnown([step |-> "insert", batch |-> b, rows |-> seen])
    BY DEF ImportKnown, Parses
  <2>7. ImportsHeld'
    BY <2>1, <2>5, <2>6, ImportHeld
  <2> QED BY <2>2, <2>4, <2>7 DEF ImportTypes, PreviewKept, RevertsKnown
<1>2. ASSUME NEW f, NEW similar, ParseAgain(q, f, similar)
      PROVE  ImportTypes'
  <2>1. PICK seen : seen = [n \in DOMAIN f |-> PreviewOf(f[n], similar)]
    OBVIOUS
  <2>2. importCalls' = [importCalls EXCEPT ![q] =
          [step |-> "clear", batch |-> importScreen.batch, rows |-> seen]]
    BY <1>2, <2>1, Zenon DEF ParseAgain
  <2>3. importScreen.batch \in ImportBatch
        /\ UNCHANGED <<importBatches, importRows, legacyRecords, importScreen, reverting>>
    BY <1>2, Zenon DEF ParseAgain
  <2>4. PICK b : b = importScreen.batch
    OBVIOUS
  <2>5. ImportKnown([step |-> "clear", batch |-> b, rows |-> seen])
    BY <2>3, <2>4 DEF ImportKnown, Parses
  <2>6. ImportsHeld'
    BY <2>2, <2>4, <2>5, ImportHeld
  <2> QED BY <2>3, <2>6 DEF ImportTypes, ImportStores, PreviewKept, RevertsKnown
<1>3. CASE ClearRows(q)
  <2>1. DeletedRow \in ImportedRow
    BY DEF DeletedRow, NoImportRow, ImportedRow, RowStatus
  <2>2. importRows' = [r \in ImportRow |-> IF r \in RowsOfBatch(importCalls[q].batch)
                                           THEN DeletedRow ELSE importRows[r]]
    BY <1>3 DEF ClearRows
  <2>3. importRows' \in [ImportRow -> ImportedRow]
    BY <2>1, <2>2 DEF ImportTypes, ImportStores
  <2>4. ImportsHeld'
    BY <1>3, ImportGoesOn DEF ClearRows
  <2> QED BY <1>3, <2>3, <2>4 DEF ClearRows, ImportTypes, ImportStores, PreviewKept, RevertsKnown
<1>4. CASE ReplaceBatch(q)
  <2>1. ImportsHeld'
    BY <1>4, ImportGoesOn DEF ReplaceBatch
  <2>2. ImportStores'
    BY <1>4, BatchStatusTyped DEF ReplaceBatch, StudentBatchStatus
  <2> QED BY <1>4, <2>1, <2>2 DEF ReplaceBatch, ImportTypes, PreviewKept, RevertsKnown
<1>5. CASE InsertImportRows(q)
  <2>1. Parses(importCalls[q])
    BY <1>5 DEF InsertImportRows, ImportTypes, ImportsHeld, ImportKnown, Confirms, NoImportCall
  <2>2. PICK c : c = importCalls[q]
    OBVIOUS
  <2>3. PICK id \in [DOMAIN importCalls[q].rows -> {r \in ImportRow : importRows[r] = NoImportRow}] :
          /\ \A m, n \in DOMAIN importCalls[q].rows : id[m] = id[n] => m = n
          /\ importRows' = [r \in ImportRow |->
               IF \E n \in DOMAIN id : id[n] = r
               THEN [batch |-> importCalls[q].batch, status |-> "pending", created |-> NoStudent]
               ELSE importRows[r]]
          /\ importScreen' = [batch |-> importCalls[q].batch,
               rows |-> [r \in {id[n] : n \in DOMAIN id} |->
                           importCalls[q].rows[CHOOSE n \in DOMAIN id : id[n] = r]]]
    BY <1>5, Zenon DEF InsertImportRows
  <2>4. c.batch \in ImportBatch
    BY <2>1, <2>2 DEF Parses
  <2>5. [batch |-> c.batch, status |-> "pending", created |-> NoStudent] \in ImportedRow
    BY <2>4 DEF ImportedRow, RowStatus
  <2>6. importRows' \in [ImportRow -> ImportedRow]
    BY <2>2, <2>3, <2>5 DEF ImportTypes, ImportStores
  <2>7. \A n \in DOMAIN id : id[n] \in ImportRow
    BY <2>3
  <2>8. /\ DOMAIN importScreen' = {"batch", "rows"} /\ importScreen'.batch = c.batch
        /\ DOMAIN importScreen'.rows = {id[n] : n \in DOMAIN id}
    BY <2>2, <2>3
  <2>9. PreviewKept'
    BY <2>4, <2>7, <2>8 DEF PreviewKept
  <2>10. importCalls' = [importCalls EXCEPT ![q] = NoImportCall]
         /\ UNCHANGED <<importBatches, legacyRecords, reverting>>
    BY <1>5, Zenon DEF InsertImportRows
  <2> QED BY <2>6, <2>9, <2>10, NoImportIsKnown, ImportHeld DEF ImportTypes, ImportStores, RevertsKnown
<1> QED BY <1>1, <1>2, <1>3, <1>4, <1>5, Zenon DEF ParseStep

\* What the person does on the preview changes its rows and adds none.
LEMMA PreviewTypes ==
  ASSUME ImportTypes, PreviewStep
  PROVE  ImportTypes'
<1>1. ASSUME NEW r, NEW row, ChangeRow(r, row)
      PROVE  ImportTypes'
  <2>1. importScreen' = [importScreen EXCEPT !.rows[r] = row]
        /\ UNCHANGED <<importBatches, importRows, legacyRecords, importCalls, reverting>>
    BY <1>1, Zenon DEF ChangeRow
  <2>2. PICK seen : seen = [importScreen.rows EXCEPT ![r] = row]
    OBVIOUS
  <2>3. DOMAIN seen = DOMAIN importScreen.rows /\ importScreen' = [importScreen EXCEPT !.rows = seen]
    BY <2>1, <2>2
  <2>4. PreviewKept'
    BY <2>3 DEF ImportTypes, PreviewKept
  <2> QED BY <2>1, <2>4 DEF ImportTypes, ImportStores, ImportsHeld, RevertsKnown
<1>2. CASE CancelPreview
  <2>1. PreviewKept'
    BY <1>2 DEF CancelPreview, NoImportScreen, PreviewKept
  <2> QED BY <1>2, <2>1 DEF CancelPreview, ImportTypes, ImportStores, ImportsHeld, RevertsKnown
<1>3. ASSUME NEW r, CorrectImportRow(r) \/ UseRow(r)
      PROVE  ImportTypes'
  BY <1>1, <1>3, Zenon DEF CorrectImportRow, UseRow
<1>4. ASSUME NEW r, NEW decision, DecideRow(r, decision)
      PROVE  ImportTypes'
  BY <1>1, <1>4, Zenon DEF DecideRow
<1>5. ASSUME NEW r, NEW s, ChooseMatch(r, s)
      PROVE  ImportTypes'
  BY <1>1, <1>5, Zenon DEF ChooseMatch
<1> QED BY <1>2, <1>3, <1>4, <1>5, Zenon DEF PreviewStep

\* A row has been dealt with: the request holds the others.
LEMMA TakenHolds ==
  ASSUME ImportTypes, NEW q \in ImportCall, NEW r, NEW bad, importCalls[q].step = "row",
         importCalls' = Taken(q, r, bad)
  PROVE  ImportsHeld'
<1>1. Confirms(importCalls[q])
  BY DEF ImportTypes, ImportsHeld, ImportKnown, Parses, NoImportCall
<1>2. PICK todo, failed, done : /\ todo = importCalls[q].todo \ {r}
                                /\ failed = importCalls[q].failed + (IF bad THEN 1 ELSE 0)
                                /\ done = importCalls[q].done + (IF bad THEN 0 ELSE 1)
  OBVIOUS
<1>3. PICK c : c = [importCalls[q] EXCEPT !.todo = todo, !.failed = failed, !.done = done]
  OBVIOUS
<1>4. ImportKnown(c)
  BY <1>1, <1>2, <1>3 DEF ImportKnown, Confirms
<1>5. importCalls' = [importCalls EXCEPT ![q] = c]
  BY <1>2, <1>3 DEF Taken, ImportTypes, ImportsHeld
<1> QED BY <1>4, <1>5, ImportHeld

LEMMA ImportRowTyped ==
  ASSUME ImportTypes, NEW r \in ImportRow, NEW status \in RowStatus,
         importRows' = [importRows EXCEPT ![r].status = status]
  PROVE  importRows' \in [ImportRow -> ImportedRow]
<1>1. PICK row : row = [importRows[r] EXCEPT !.status = status]
  OBVIOUS
<1>2. row \in ImportedRow
  BY <1>1 DEF ImportTypes, ImportStores, ImportedRow
<1>3. importRows' = [importRows EXCEPT ![r] = row]
  BY <1>1 DEF ImportTypes, ImportStores
<1> QED BY <1>2, <1>3 DEF ImportTypes, ImportStores

LEMMA ConfirmTypes ==
  ASSUME ImportTypes, NEW q \in ImportCall, ConfirmStep(q)
  PROVE  ImportTypes'
<1>1. CASE ConfirmImport(q)
  <2>1. importScreen.batch \in ImportBatch /\ UNCHANGED <<importBatches, importRows, legacyRecords, reverting>>
    BY <1>1, Zenon DEF ConfirmImport
  <2>2. PICK bad : bad = {r \in DOMAIN importScreen.rows : RowErrors(importScreen.rows[r])}
    OBVIOUS
  <2>3. CASE /\ importScreen' = [importScreen EXCEPT !.rows =
                  [r \in DOMAIN importScreen.rows |->
                     [importScreen.rows[r] EXCEPT !.errors = @ \/ r \in bad]]]
             /\ UNCHANGED importCalls
    <3>1. PICK seen : seen = [r \in DOMAIN importScreen.rows |->
                                [importScreen.rows[r] EXCEPT !.errors = @ \/ r \in bad]]
      OBVIOUS
    <3>2. importScreen' = [importScreen EXCEPT !.rows = seen]
          /\ DOMAIN seen = DOMAIN importScreen.rows
      BY <2>3, <3>1
    <3>3. PreviewKept'
      BY <3>2 DEF ImportTypes, PreviewKept
    <3> QED BY <2>1, <2>3, <3>3 DEF ImportTypes, ImportStores, ImportsHeld, RevertsKnown
  <2>4. CASE /\ importCalls' = [importCalls EXCEPT ![q] =
                  [step |-> "start", batch |-> importScreen.batch, rows |-> importScreen.rows,
                   todo |-> DOMAIN importScreen.rows, done |-> 0, failed |-> 0]]
             /\ UNCHANGED importScreen
    <3>1. PICK c : c = [step |-> "start", batch |-> importScreen.batch,
                        rows |-> importScreen.rows, todo |-> DOMAIN importScreen.rows,
                        done |-> 0, failed |-> 0]
      OBVIOUS
    <3>2. ImportKnown(c)
      BY <2>1, <3>1 DEF ImportKnown, Confirms, ImportTypes, PreviewKept
    <3>3. ImportsHeld'
      BY <2>4, <3>1, <3>2, ImportHeld
    <3> QED BY <2>1, <2>4, <3>3 DEF ImportTypes, ImportStores, PreviewKept, RevertsKnown
  <2> QED BY <1>1, <2>2, <2>3, <2>4, Zenon DEF ConfirmImport
<1>2. CASE StartImport(q)
  <2>1. ImportsHeld'
    BY <1>2, ImportGoesOn DEF StartImport
  <2>2. ImportStores'
    BY <1>2, BatchStatusTyped DEF StartImport, StudentBatchStatus
  <2> QED BY <1>2, <2>1, <2>2 DEF StartImport, ImportTypes, PreviewKept, RevertsKnown
<1>3. CASE FinishImport(q)
  <2>1. PICK status \in {"completed", "completed_with_errors", "failed"} :
          importBatches' = [importBatches EXCEPT ![importCalls[q].batch].status = status]
    BY <1>3 DEF FinishImport
  <2>2. UNCHANGED <<importRows, legacyRecords, importScreen, reverting>>
        /\ importCalls' = [importCalls EXCEPT ![q] = NoImportCall]
    BY <1>3, Zenon DEF FinishImport
  <2>3. status \in StudentBatchStatus
    BY DEF StudentBatchStatus
  <2>4. ImportStores'
    BY <2>1, <2>2, <2>3, BatchStatusTyped
  <2> QED BY <2>2, <2>4, NoImportIsKnown, ImportHeld DEF ImportTypes, PreviewKept, RevertsKnown
<1>4. CASE ImportCallDies(q)
  <2>1. ImportsHeld'
    BY <1>4, NoImportIsKnown, ImportHeld DEF ImportCallDies
  <2> QED BY <1>4, <2>1 DEF ImportCallDies, ImportTypes, ImportStores, PreviewKept, RevertsKnown
<1>5. ASSUME NEW r, importCalls[q].step = "row", r \in importCalls[q].todo
      PROVE  r \in ImportRow
  BY <1>5 DEF ImportTypes, ImportsHeld, ImportKnown, Parses, Confirms, NoImportCall
<1>6. ASSUME NEW r, SkipRow(q, r)
      PROVE  ImportTypes'
  <2>1. ImportsHeld'
    BY <1>6, TakenHolds DEF SkipRow
  <2>2. importRows' \in [ImportRow -> ImportedRow]
    BY <1>5, <1>6, ImportRowTyped DEF SkipRow, RowStatus
  <2> QED BY <1>6, <2>1, <2>2 DEF SkipRow, ImportTypes, ImportStores, PreviewKept, RevertsKnown
<1>7. ASSUME NEW r, FailStudentRow(q, r)
      PROVE  ImportTypes'
  <2>1. ImportsHeld'
    BY <1>7, TakenHolds DEF FailStudentRow
  <2>2. \/ importRows' = importRows
        \/ importRows' = [importRows EXCEPT ![r].status = "failed"]
    BY <1>7 DEF FailStudentRow
  <2>3. importRows' \in [ImportRow -> ImportedRow]
    BY <1>5, <1>7, <2>2, ImportRowTyped DEF FailStudentRow, RowStatus, ImportTypes, ImportStores
  <2>4. UNCHANGED <<importBatches, legacyRecords, importScreen, reverting>>
    BY <1>7, Zenon DEF FailStudentRow
  <2> QED BY <2>1, <2>3, <2>4 DEF ImportTypes, ImportStores, PreviewKept, RevertsKnown
<1>8. ASSUME NEW r, NEW s \in Student, TakeStudentRow(q, r, s)
      PROVE  ImportTypes'
  <2>1. ImportsHeld' /\ r \in ImportRow
    BY <1>5, <1>8, TakenHolds DEF TakeStudentRow
  <2>2. PICK status \in {"imported", "linked"}, created \in {s, NoStudent} :
          importRows' = [importRows EXCEPT ![r].status = status, ![r].created = created]
    BY <1>8 DEF TakeStudentRow
  <2>3. PICK row : row = [importRows[r] EXCEPT !.status = status, !.created = created]
    OBVIOUS
  <2>4. row \in ImportedRow
    BY <2>1, <2>3 DEF ImportTypes, ImportStores, ImportedRow, RowStatus
  <2>5. importRows' = [importRows EXCEPT ![r] = row]
    BY <2>1, <2>2, <2>3 DEF ImportTypes, ImportStores
  <2>6. importRows[r].batch \in ImportBatch
    BY <1>8 DEF TakeStudentRow, BatchIsOpen
  <2>7. legacyRecords' \in {legacyRecords, legacyRecords \cup {<<importRows[r].batch, s>>}}
    BY <1>8 DEF TakeStudentRow
  <2>8. UNCHANGED <<importBatches, importScreen, reverting>>
    BY <1>8, Zenon DEF TakeStudentRow
  <2>9. importRows' \in [ImportRow -> ImportedRow]
    BY <2>4, <2>5 DEF ImportTypes, ImportStores
  <2>10. legacyRecords' \subseteq ImportBatch \X Student
    BY <2>6, <2>7 DEF ImportTypes, ImportStores
  <2> QED BY <2>1, <2>8, <2>9, <2>10 DEF ImportTypes, ImportStores, PreviewKept, RevertsKnown
<1> QED BY <1>1, <1>2, <1>3, <1>4, <1>6, <1>7, <1>8, Zenon DEF ConfirmStep

\* What a revert has created, looks at and marks.
LEMMA CreatedKnown ==
  ASSUME ImportTypes, NEW rows \in SUBSET ImportRow
  PROVE  Created(rows) \subseteq Student
<1>1. \A r \in rows : importRows[r].created \in Student \cup {NoStudent}
  BY DEF ImportTypes, ImportStores, ImportedRow
<1> QED BY <1>1 DEF Created

LEMMA RevertTypes ==
  ASSUME ImportTypes, NEW b \in ImportBatch,
         RevertLooks(b) \/ RevertRemoves(b) \/ RevertFails(b)
  PROVE  ImportTypes'
<1>1. ASSUME EndRevert(b)
      PROVE  RevertsKnown'
  BY <1>1 DEF EndRevert, ImportTypes, RevertsKnown
<1>2. CASE RevertLooks(b)
  <2>1. PICK blocked, gone :
          /\ blocked \subseteq RowsOfBatch(b)
          /\ reverting' = [c \in DOMAIN reverting \cup {b} |->
               IF c = b THEN [blocked |-> blocked, idle |-> Created(RowsOfBatch(b)) \ gone]
               ELSE reverting[c]]
    BY <1>2 DEF RevertLooks
  <2>2. RowsOfBatch(b) \subseteq ImportRow
    BY DEF RowsOfBatch
  <2>3. Created(RowsOfBatch(b)) \subseteq Student
    BY <2>2, CreatedKnown
  <2>4. PICK kept : kept = Created(RowsOfBatch(b)) \ gone
    OBVIOUS
  <2>5. [blocked |-> blocked, idle |-> kept] \in [blocked : SUBSET ImportRow, idle : SUBSET Student]
    BY <2>1, <2>2, <2>3, <2>4
  <2>6. RevertsKnown'
    BY <2>1, <2>4, <2>5 DEF ImportTypes, RevertsKnown
  <2>7. UNCHANGED <<importBatches, importRows, legacyRecords, importScreen, importCalls>>
    BY <1>2, Zenon DEF RevertLooks
  <2> QED BY <2>6, <2>7 DEF ImportTypes, ImportStores, PreviewKept, ImportsHeld
<1>3. CASE RevertRemoves(b)
  <2>1. PICK gone :
          /\ legacyRecords' = {x \in legacyRecords : x[1] # b /\ x[2] \notin gone}
          /\ importRows' = [r \in ImportRow |->
               [importRows[r] EXCEPT
                  !.created = IF importRows[r].created \in gone THEN NoStudent
                              ELSE importRows[r].created,
                  !.status = CASE r \in reverting[b].blocked -> "revert_blocked"
                               [] r \in RowsOfBatch(b) \ reverting[b].blocked
                                  /\ @ \notin {"pending", "revert_blocked"} -> "reverted"
                               [] OTHER -> @]]
    BY <1>3, Zenon DEF RevertRemoves
  <2>2. ASSUME NEW r \in ImportRow
        PROVE  importRows'[r] \in ImportedRow
    <3>1. importRows[r] \in ImportedRow
      BY DEF ImportTypes, ImportStores
    <3>2. PICK created \in {NoStudent, importRows[r].created},
               status \in {"reverted", "revert_blocked", importRows[r].status} :
            importRows'[r] = [importRows[r] EXCEPT !.created = created, !.status = status]
      BY <2>1
    <3> QED BY <3>1, <3>2 DEF ImportedRow, RowStatus
  <2>3. importRows' = [r \in ImportRow |-> importRows'[r]]
    BY <2>1
  <2>4. importRows' \in [ImportRow -> ImportedRow]
    BY <2>2, <2>3
  <2>5. /\ importBatches' = [importBatches EXCEPT ![b].status = "reverted"]
        /\ EndRevert(b) /\ UNCHANGED <<importScreen, importCalls>>
    BY <1>3, Zenon DEF RevertRemoves
  <2>6. PICK row : row = [importBatches[b] EXCEPT !.status = "reverted"]
    OBVIOUS
  <2>7. row \in ImportBatchRow /\ importBatches' = [importBatches EXCEPT ![b] = row]
    BY <2>5, <2>6 DEF ImportTypes, ImportStores, ImportBatchRow, StudentBatchStatus
  <2>8. ImportStores'
    BY <2>1, <2>4, <2>7 DEF ImportTypes, ImportStores
  <2> QED BY <1>1, <2>5, <2>8 DEF ImportTypes, PreviewKept, ImportsHeld
<1>4. CASE RevertFails(b)
  <2>1. /\ EndRevert(b)
        /\ UNCHANGED <<importBatches, importRows, legacyRecords, importScreen, importCalls>>
    BY <1>4, Zenon DEF RevertFails
  <2> QED BY <1>1, <2>1 DEF ImportTypes, ImportStores, PreviewKept, ImportsHeld
<1> QED BY <1>2, <1>3, <1>4

\* A merge moves rows and legacy records from one student to another.
LEMMA MoveTypes ==
  ASSUME ImportTypes, NEW source \in Student, NEW target \in Student,
         MoveImports(source, target)
  PROVE  ImportTypes'
<1>1. /\ legacyRecords' =
           {<<x[1], IF x[2] = source THEN target ELSE x[2]>> : x \in legacyRecords}
      /\ importRows' = [r \in ImportRow |->
           [importRows[r] EXCEPT !.created = IF @ = source THEN target ELSE @]]
      /\ UNCHANGED <<importBatches, importScreen, importCalls, reverting>>
  BY Zenon DEF MoveImports
<1>2. importRows' \in [ImportRow -> ImportedRow]
  <2>1. ASSUME NEW r \in ImportRow
        PROVE  importRows'[r] \in ImportedRow
    <3>1. PICK created \in {target, importRows[r].created} :
            importRows'[r] = [importRows[r] EXCEPT !.created = created]
      BY <1>1
    <3> QED BY <3>1 DEF ImportTypes, ImportStores, ImportedRow
  <2>2. importRows' = [r \in ImportRow |-> importRows'[r]]
    BY <1>1
  <2> QED BY <2>1, <2>2
<1>3. legacyRecords' \subseteq ImportBatch \X Student
  BY <1>1 DEF ImportTypes, ImportStores
<1>4. ImportStores'
  BY <1>1, <1>2, <1>3 DEF ImportTypes, ImportStores
<1> QED BY <1>1, <1>4 DEF ImportTypes, PreviewKept, ImportsHeld, RevertsKnown

\* An import makes drafts of students and a revert removes them; no other
\* record is written by either.
LEMMA ImportKeepsRecords ==
  ASSUME RecordTypes, ImportTypes, ImportStep \/ PreviewStep
  PROVE  RecordTypes'
<1>0. ASSUME students' \in [Student -> StudentRow], UNCHANGED <<documentLinks, mergeEvents, studyVars>>
      PROVE  RecordTypes'
  BY <1>0 DEF RecordTypes, Registers, Studies, RecordsHeld, studyVars
<1>1. CASE UNCHANGED studentVars
  BY <1>0, <1>1 DEF studentVars, RecordTypes, Registers
<1>2. ASSUME NEW q, ParseStep(q)
      PROVE  UNCHANGED studentVars
  BY <1>2, Zenon DEF ParseStep, ParseNew, ParseAgain, ClearRows, ReplaceBatch, InsertImportRows
<1>3. CASE PreviewStep
  <2>1. UNCHANGED studentVars
    BY <1>3, Zenon DEF PreviewStep, CorrectImportRow, UseRow, DecideRow, ChooseMatch,
                       CancelPreview, ChangeRow
  <2> QED BY <1>1, <2>1
<1>4. NoStudentRow \in StudentRow
  <2>1. SomeBranch \in Branch
    BY StudentRecordsAssumption DEF SomeBranch
  <2> QED BY <2>1 DEF NoStudentRow, StudentRow, StudentStatus
<1>5. ASSUME NEW status \in StudentStatus
      PROVE  [NoStudentRow EXCEPT !.status = status] \in StudentRow
  BY <1>4 DEF StudentRow
<1>6. ASSUME NEW q, ConfirmStep(q)
      PROVE  RecordTypes'
  <2>1. ASSUME NEW r, NEW s \in Student, TakeStudentRow(q, r, s)
        PROVE  RecordTypes'
    <3>1. PICK row : row = [NoStudentRow EXCEPT !.status = "draft"]
      OBVIOUS
    <3>2. students' = students \/ students' = [students EXCEPT ![s] = row]
      BY <2>1, <3>1 DEF TakeStudentRow
    <3>3. row \in StudentRow
      BY <1>5, <3>1 DEF StudentStatus
    <3>4. UNCHANGED <<documentLinks, mergeEvents, studyVars>>
      BY <2>1, Zenon DEF TakeStudentRow
    <3> QED BY <1>0, <3>2, <3>3, <3>4 DEF RecordTypes, Registers
  <2>2. CASE ~ \E r, s : s \in Student /\ TakeStudentRow(q, r, s)
    <3>1. UNCHANGED studentVars
      BY <1>6, <2>2, Zenon DEF ConfirmStep, ConfirmImport, StartImport, FinishImport,
                               ImportCallDies, SkipRow, FailStudentRow
    <3> QED BY <1>1, <3>1
  <2> QED BY <2>1, <2>2
<1>7. ASSUME NEW b, RevertRemoves(b)
      PROVE  RecordTypes'
  <2>1. PICK gone : students' = [s \in Student |->
                      IF s \in gone THEN [NoStudentRow EXCEPT !.status = "removed"]
                      ELSE students[s]]
    BY <1>7, Zenon DEF RevertRemoves
  <2>2. PICK row : row = [NoStudentRow EXCEPT !.status = "removed"]
    OBVIOUS
  <2>3. row \in StudentRow
    BY <1>5, <2>2 DEF StudentStatus
  <2>4. students' \in [Student -> StudentRow]
    BY <2>1, <2>2, <2>3 DEF RecordTypes, Registers
  <2>5. UNCHANGED <<documentLinks, mergeEvents, studyVars>>
    BY <1>7, Zenon DEF RevertRemoves
  <2> QED BY <1>0, <2>4, <2>5
<1>8. ASSUME NEW b, RevertLooks(b) \/ RevertFails(b)
      PROVE  UNCHANGED studentVars
  BY <1>8, Zenon DEF RevertLooks, RevertFails
<1> QED BY <1>1, <1>2, <1>3, <1>6, <1>7, <1>8 DEF ImportStep

LEMMA ImportTypesStep ==
  ASSUME RecordTypes, ImportTypes, [StudentImportNext]_studentImportVars
  PROVE  RecordTypes' /\ ImportTypes'
<1>1. CASE UNCHANGED studentImportVars
  <2>1. UNCHANGED studentRecordVars /\ UNCHANGED importVars
    BY <1>1 DEF studentImportVars, studentVars, studyVars, studentRecordVars
  <2>2. ImportTypes'
    BY <2>1 DEF importVars, ImportTypes, ImportStores, PreviewKept, ImportsHeld, RevertsKnown
  <2> QED BY <2>1, <2>2, RecordTypesStep
<1>2. CASE (StudentStep \/ StudyStep) /\ UNCHANGED importVars
  <2>1. ImportTypes'
    BY <1>2 DEF importVars, ImportTypes, ImportStores, PreviewKept, ImportsHeld, RevertsKnown
  <2> QED BY <1>2, <2>1, StudentsTyped, StudyTyped
<1>3. CASE ImportStep
  BY <1>3, ImportKeepsRecords, ParseTypes, ConfirmTypes, RevertTypes DEF ImportStep
<1>4. CASE PreviewStep
  BY <1>4, ImportKeepsRecords, PreviewTypes
<1>5. CASE MergeStep
  BY <1>5, MergeTyped, MoveTypes DEF MergeStep
<1> QED BY <1>1, <1>2, <1>3, <1>4, <1>5 DEF StudentImportNext

LEMMA ImportIsTyped == ImportTypes => StudentImportTypeOK
BY DEF ImportTypes, ImportStores, PreviewKept, RevertsKnown, ImportBatchRow, ImportedRow,
       StudentImportTypeOK

\* With parses, confirmations and reverts of the same batch in progress, the
\* tables stay of their types: only rows of the preview are taken, and only a
\* student there is has a legacy record (src/app/students/import, the import
\* routes, the functions of migration 0018).
THEOREM StudentImportTypeCorrect ==
  StudentImportSpec => [](StudentRecordsTypeOK /\ StudentImportTypeOK)
<1>1. StudentImportInit => RecordTypes /\ ImportTypes
  BY RecordTypesStart, ImportTypesStart DEF StudentImportInit
<1>2. RecordTypes /\ ImportTypes => StudentRecordsTypeOK /\ StudentImportTypeOK
  BY RecordsAreTyped, ImportIsTyped
<1>3. RecordTypes /\ ImportTypes /\ [StudentImportNext]_studentImportVars
        => RecordTypes' /\ ImportTypes'
  BY ImportTypesStep
<1> QED BY <1>1, <1>2, <1>3, PTL DEF StudentImportSpec

-----------------------------------------------------------------------------
(* The revert of a student import *)

\* The tables have the columns they are read by.
ImportTables ==
  /\ importBatches = [b \in ImportBatch |-> importBatches[b]]
  /\ \A b \in ImportBatch : DOMAIN importBatches[b] = {"status", "mode"}
  /\ importRows = [r \in ImportRow |-> importRows[r]]
  /\ \A r \in ImportRow : DOMAIN importRows[r] = {"batch", "status", "created"}
RevertInv == ImportTables /\ RevertedLeavesNothing

\* A batch is written: every other one is as it was.
LEMMA BatchWritten ==
  ASSUME ImportTables, NEW b, NEW row, DOMAIN row = {"status", "mode"},
         importBatches' = [importBatches EXCEPT ![b] = row]
  PROVE  /\ importBatches' = [x \in ImportBatch |-> importBatches'[x]]
         /\ \A x \in ImportBatch : DOMAIN importBatches'[x] = {"status", "mode"}
         /\ \A x \in ImportBatch \ {b} : importBatches'[x] = importBatches[x]
         /\ b \in ImportBatch => importBatches'[b] = row
BY DEF ImportTables

\* So is every other row when one is.
LEMMA RowWritten ==
  ASSUME ImportTables, NEW r, NEW row, DOMAIN row = {"batch", "status", "created"},
         importRows' = [importRows EXCEPT ![r] = row]
  PROVE  /\ importRows' = [x \in ImportRow |-> importRows'[x]]
         /\ \A x \in ImportRow : DOMAIN importRows'[x] = {"batch", "status", "created"}
         /\ \A x \in ImportRow \ {r} : importRows'[x] = importRows[x]
         /\ r \in ImportRow => importRows'[r] = row
BY DEF ImportTables

\* A request that gives its batch a status other than reverted.
LEMMA StatusMoves ==
  ASSUME RevertInv, NEW b, NEW status, status # "reverted",
         importBatches' = [importBatches EXCEPT ![b].status = status],
         UNCHANGED <<importRows, legacyRecords>>
  PROVE  RevertInv'
<1>1. CASE b \in ImportBatch
  <2>1. PICK row : row = [importBatches[b] EXCEPT !.status = status]
    OBVIOUS
  <2>2. DOMAIN row = {"status", "mode"} /\ row.status = status
    BY <1>1, <2>1 DEF RevertInv, ImportTables
  <2>3. importBatches' = [importBatches EXCEPT ![b] = row]
    BY <2>1 DEF RevertInv, ImportTables
  <2>4. /\ importBatches' = [x \in ImportBatch |-> importBatches'[x]]
        /\ \A x \in ImportBatch : DOMAIN importBatches'[x] = {"status", "mode"}
        /\ \A x \in ImportBatch \ {b} : importBatches'[x] = importBatches[x]
        /\ importBatches'[b] = row
    BY <1>1, <2>2, <2>3, BatchWritten DEF RevertInv
  <2>5. \A x \in ImportBatch : importBatches'[x].status = "reverted"
                                 => importBatches[x].status = "reverted"
    BY <2>2, <2>4
  <2>6. RevertedLeavesNothing'
    BY <2>5 DEF RevertInv, RevertedLeavesNothing, RowsOfBatch
  <2>7. QED
    BY <2>4, <2>6 DEF RevertInv, ImportTables
<1>2. CASE b \notin ImportBatch
  <2>1. importBatches' = importBatches
    BY <1>2 DEF RevertInv, ImportTables
  <2>2. QED
    BY <2>1 DEF RevertInv, ImportTables, RevertedLeavesNothing, RowsOfBatch
<1>3. QED
  BY <1>1, <1>2

\* A request that writes one row, and what may come of it for its batch.
LEMMA RowMoves ==
  ASSUME RevertInv, importBatches' = importBatches, NEW r, NEW row,
         DOMAIN row = {"batch", "status", "created"},
         r \in ImportRow => row.batch = importRows[r].batch,
         importRows' = [importRows EXCEPT ![r] = row],
         \/ row.status = "failed" /\ legacyRecords' = legacyRecords
         \/ /\ BatchIsOpen(importRows[r].batch)
            /\ \A x \in legacyRecords' \ legacyRecords : x[1] = importRows[r].batch
  PROVE  RevertInv'
<1>1. /\ importRows' = [x \in ImportRow |-> importRows'[x]]
      /\ \A x \in ImportRow : DOMAIN importRows'[x] = {"batch", "status", "created"}
      /\ \A x \in ImportRow \ {r} : importRows'[x] = importRows[x]
      /\ r \in ImportRow => importRows'[r] = row
  BY RowWritten DEF RevertInv
<1>2. ASSUME NEW b \in ImportBatch, importBatches[b].status = "reverted"
      PROVE  /\ \A x \in legacyRecords' : x[1] # b
             /\ \A x \in ImportRow : importRows'[x].batch = b =>
                  importRows'[x].status \notin {"imported", "linked", "skipped"}
  <2>1. /\ \A x \in legacyRecords : x[1] # b
        /\ \A x \in ImportRow : importRows[x].batch = b =>
             importRows[x].status \notin {"imported", "linked", "skipped"}
    BY <1>2 DEF RevertInv, RevertedLeavesNothing, RowsOfBatch
  <2>2. CASE row.status = "failed" /\ legacyRecords' = legacyRecords
    BY <1>1, <2>1, <2>2
  <2>3. CASE /\ BatchIsOpen(importRows[r].batch)
             /\ \A x \in legacyRecords' \ legacyRecords : x[1] = importRows[r].batch
    <3>1. importRows[r].batch # b
      BY <1>2, <2>3 DEF BatchIsOpen
    <3>2. QED
      BY <1>1, <2>1, <2>3, <3>1
  <2>4. QED
    BY <2>2, <2>3
<1>3. QED
  BY <1>1, <1>2 DEF RevertInv, ImportTables, RevertedLeavesNothing, RowsOfBatch

LEMMA RevertStart == StudentImportInit => RevertInv
BY DEF StudentImportInit, RevertInv, ImportTables, RevertedLeavesNothing,
       NoImportBatch, NoImportRow

LEMMA RevertStep == RevertInv /\ [StudentImportNext]_studentImportVars => RevertInv'
<1> SUFFICES ASSUME RevertInv, [StudentImportNext]_studentImportVars
             PROVE  RevertInv'
  OBVIOUS
<1>0. ASSUME UNCHANGED <<importBatches, importRows, legacyRecords>>
      PROVE  RevertInv'
  BY <1>0 DEF RevertInv, ImportTables, RevertedLeavesNothing, RowsOfBatch
<1>1. ASSUME NEW q \in ImportCall, ParseStep(q)
      PROVE  RevertInv'
  <2>1. ASSUME NEW f, NEW mode, NEW similar, ParseNew(q, f, mode, similar)
        PROVE  RevertInv'
    <3>1. PICK b \in ImportBatch :
            importBatches' = [importBatches EXCEPT ![b] = [status |-> "mapping", mode |-> mode]]
      BY <2>1 DEF ParseNew
    <3>2. UNCHANGED <<importRows, legacyRecords>>
      BY <2>1 DEF ParseNew, studentVars
    <3>3. /\ importBatches' = [x \in ImportBatch |-> importBatches'[x]]
          /\ \A x \in ImportBatch : DOMAIN importBatches'[x] = {"status", "mode"}
          /\ \A x \in ImportBatch \ {b} : importBatches'[x] = importBatches[x]
          /\ importBatches'[b] = [status |-> "mapping", mode |-> mode]
      BY <3>1, BatchWritten DEF RevertInv
    <3>4. QED
      BY <3>2, <3>3 DEF RevertInv, ImportTables, RevertedLeavesNothing, RowsOfBatch
  <2>2. ASSUME NEW f, NEW similar, ParseAgain(q, f, similar)
        PROVE  RevertInv'
    BY <1>0, <2>2 DEF ParseAgain
  <2>3. CASE ClearRows(q)
    <3>1. /\ importRows' = [r \in ImportRow |->
               IF r \in RowsOfBatch(importCalls[q].batch) THEN DeletedRow ELSE importRows[r]]
          /\ UNCHANGED <<importBatches, legacyRecords>>
      BY <2>3 DEF ClearRows
    <3>2. DeletedRow = [batch |-> "none", status |-> "deleted", created |-> NoStudent]
      BY DEF DeletedRow, NoImportRow
    <3>3. QED
      BY <3>1, <3>2 DEF RevertInv, ImportTables, RevertedLeavesNothing, RowsOfBatch
  <2>4. CASE ReplaceBatch(q)
    BY <2>4, StatusMoves DEF ReplaceBatch
  <2>5. CASE InsertImportRows(q)
    <3>1. PICK id : importRows' = [r \in ImportRow |->
                      IF \E n \in DOMAIN id : id[n] = r
                      THEN [batch |-> importCalls[q].batch, status |-> "pending",
                            created |-> NoStudent]
                      ELSE importRows[r]]
      BY <2>5, Zenon DEF InsertImportRows
    <3>2. UNCHANGED <<importBatches, legacyRecords>>
      BY <2>5, Zenon DEF InsertImportRows
    <3>3. \A r \in ImportRow :
            \/ importRows'[r] = importRows[r]
            \/ importRows'[r] = [batch |-> importCalls[q].batch, status |-> "pending",
                                 created |-> NoStudent]
      BY <3>1
    <3>4. importRows' = [r \in ImportRow |-> importRows'[r]]
      BY <3>1
    <3>5. QED
      BY <3>2, <3>3, <3>4 DEF RevertInv, ImportTables, RevertedLeavesNothing, RowsOfBatch
  <2>6. QED
    BY <1>1, <2>1, <2>2, <2>3, <2>4, <2>5 DEF ParseStep
<1>2. ASSUME NEW q \in ImportCall, ConfirmStep(q)
      PROVE  RevertInv'
  <2>1. CASE ConfirmImport(q) \/ ImportCallDies(q)
    <3>1. UNCHANGED <<importBatches, importRows, legacyRecords>>
      BY <2>1, Zenon DEF ConfirmImport, ImportCallDies
    <3>2. QED
      BY <1>0, <3>1
  <2>2. CASE StartImport(q)
    BY <2>2, StatusMoves DEF StartImport
  <2>3. CASE FinishImport(q)
    <3>1. PICK status \in {"completed", "completed_with_errors", "failed"} :
            importBatches' = [importBatches EXCEPT ![importCalls[q].batch].status = status]
      BY <2>3 DEF FinishImport
    <3>2. UNCHANGED <<importRows, legacyRecords>>
      BY <2>3 DEF FinishImport
    <3>3. QED
      BY <3>1, <3>2, StatusMoves
  <2>4. ASSUME NEW r, SkipRow(q, r)
        PROVE  RevertInv'
    <3>1. PICK row : row = [importRows[r] EXCEPT !.status = "skipped"]
      OBVIOUS
    <3>2. /\ importRows' = [importRows EXCEPT ![r] = row]
          /\ BatchIsOpen(importRows[r].batch) /\ UNCHANGED <<importBatches, legacyRecords>>
      BY <2>4, <3>1 DEF SkipRow, RevertInv, ImportTables
    <3>3. CASE r \in ImportRow
      <4>1. DOMAIN row = {"batch", "status", "created"} /\ row.batch = importRows[r].batch
        BY <3>1, <3>3 DEF RevertInv, ImportTables
      <4>2. QED
        BY <3>2, <4>1, RowMoves
    <3>4. CASE r \notin ImportRow
      BY <1>0, <3>2, <3>4 DEF RevertInv, ImportTables
    <3>5. QED
      BY <3>3, <3>4
  <2>5. ASSUME NEW r, FailStudentRow(q, r)
        PROVE  RevertInv'
    <3>1. UNCHANGED <<importBatches, legacyRecords>>
      BY <2>5 DEF FailStudentRow
    <3>2. CASE importRows' = importRows
      BY <1>0, <3>1, <3>2
    <3>3. CASE importRows' = [importRows EXCEPT ![r].status = "failed"] /\ r \in ImportRow
      <4>1. PICK row : row = [importRows[r] EXCEPT !.status = "failed"]
        OBVIOUS
      <4>2. /\ DOMAIN row = {"batch", "status", "created"} /\ row.batch = importRows[r].batch
            /\ row.status = "failed"
        BY <3>3, <4>1 DEF RevertInv, ImportTables
      <4>3. importRows' = [importRows EXCEPT ![r] = row]
        BY <3>3, <4>1 DEF RevertInv, ImportTables
      <4>4. QED
        BY <3>1, <4>2, <4>3, RowMoves
    <3>4. QED
      BY <2>5, <3>2, <3>3 DEF FailStudentRow, RevertInv, ImportTables
  <2>6. ASSUME NEW r, NEW s, TakeStudentRow(q, r, s)
        PROVE  RevertInv'
    <3>1. PICK status, created :
            importRows' = [importRows EXCEPT ![r].status = status, ![r].created = created]
      BY <2>6 DEF TakeStudentRow
    <3>2. /\ BatchIsOpen(importRows[r].batch) /\ importBatches' = importBatches
          /\ \A x \in legacyRecords' \ legacyRecords : x[1] = importRows[r].batch
      BY <2>6 DEF TakeStudentRow
    <3>3. PICK row : row = [importRows[r] EXCEPT !.status = status, !.created = created]
      OBVIOUS
    <3>4. importRows' = [importRows EXCEPT ![r] = row]
      BY <3>1, <3>3 DEF RevertInv, ImportTables
    <3>5. CASE r \in ImportRow
      <4>1. DOMAIN row = {"batch", "status", "created"} /\ row.batch = importRows[r].batch
        BY <3>3, <3>5 DEF RevertInv, ImportTables
      <4>2. QED
        BY <3>2, <3>4, <4>1, RowMoves
    <3>6. CASE r \notin ImportRow
      <4>1. importRows' = importRows
        BY <3>4, <3>6 DEF RevertInv, ImportTables
      <4>2. ASSUME NEW b \in ImportBatch, importBatches[b].status = "reverted",
                   NEW x \in legacyRecords'
            PROVE  x[1] # b
        BY <3>2, <4>2 DEF RevertInv, RevertedLeavesNothing, BatchIsOpen
      <4>3. QED
        BY <3>2, <4>1, <4>2 DEF RevertInv, ImportTables, RevertedLeavesNothing, RowsOfBatch
    <3>7. QED
      BY <3>5, <3>6
  <2>7. QED
    BY <1>2, <2>1, <2>2, <2>3, <2>4, <2>5, <2>6 DEF ConfirmStep
<1>3. ASSUME NEW b \in ImportBatch, RevertRemoves(b)
      PROVE  RevertInv'
  <2>1. PICK gone :
          /\ legacyRecords' = {x \in legacyRecords : x[1] # b /\ x[2] \notin gone}
          /\ importRows' = [r \in ImportRow |->
               [importRows[r] EXCEPT
                  !.created = IF importRows[r].created \in gone THEN NoStudent
                              ELSE importRows[r].created,
                  !.status = CASE r \in reverting[b].blocked -> "revert_blocked"
                               [] r \in RowsOfBatch(b) \ reverting[b].blocked
                                  /\ @ \notin {"pending", "revert_blocked"} -> "reverted"
                               [] OTHER -> @]]
    BY <1>3, Zenon DEF RevertRemoves
  <2>2. importBatches' = [importBatches EXCEPT ![b].status = "reverted"]
    BY <1>3, Zenon DEF RevertRemoves
  <2>3. /\ importRows' = [r \in ImportRow |-> importRows'[r]]
        /\ \A r \in ImportRow :
             /\ DOMAIN importRows'[r] = {"batch", "status", "created"}
             /\ importRows'[r].batch = importRows[r].batch
             /\ \/ importRows'[r].status \in {"reverted", "revert_blocked"}
                \/ /\ importRows'[r].status = importRows[r].status
                   /\ \/ importRows[r].batch # b
                      \/ importRows[r].status \in {"pending", "revert_blocked"}
    <3>1. ASSUME NEW r \in ImportRow
          PROVE  /\ DOMAIN importRows'[r] = {"batch", "status", "created"}
                 /\ importRows'[r].batch = importRows[r].batch
                 /\ \/ importRows'[r].status \in {"reverted", "revert_blocked"}
                    \/ /\ importRows'[r].status = importRows[r].status
                       /\ \/ importRows[r].batch # b
                          \/ importRows[r].status \in {"pending", "revert_blocked"}
      <4>1. PICK created, status :
              /\ importRows'[r] = [importRows[r] EXCEPT !.created = created, !.status = status]
              /\ \/ status \in {"reverted", "revert_blocked"}
                 \/ /\ status = importRows[r].status
                    /\ \/ importRows[r].batch # b
                       \/ importRows[r].status \in {"pending", "revert_blocked"}
        BY <2>1 DEF RowsOfBatch
      <4>2. QED
        BY <4>1 DEF RevertInv, ImportTables
    <3>2. QED
      BY <2>1, <3>1
  <2>4. /\ importBatches' = [x \in ImportBatch |-> importBatches'[x]]
        /\ \A x \in ImportBatch : DOMAIN importBatches'[x] = {"status", "mode"}
        /\ \A x \in ImportBatch \ {b} : importBatches'[x] = importBatches[x]
    BY <2>2 DEF RevertInv, ImportTables
  <2>5. ASSUME NEW x \in ImportBatch, importBatches'[x].status = "reverted"
        PROVE  /\ \A y \in legacyRecords' : y[1] # x
               /\ \A r \in ImportRow : importRows'[r].batch = x =>
                    importRows'[r].status \notin {"imported", "linked", "skipped"}
    <3>1. CASE x = b
      BY <2>1, <2>3, <3>1
    <3>2. CASE x # b
      <4>1. importBatches[x].status = "reverted"
        BY <2>4, <2>5, <3>2
      <4>2. /\ \A y \in legacyRecords : y[1] # x
            /\ \A r \in ImportRow : importRows[r].batch = x =>
                 importRows[r].status \notin {"imported", "linked", "skipped"}
        BY <4>1 DEF RevertInv, RevertedLeavesNothing, RowsOfBatch
      <4>3. QED
        BY <2>1, <2>3, <4>2
    <3>3. QED
      BY <3>1, <3>2
  <2>6. QED
    BY <2>3, <2>4, <2>5 DEF RevertInv, ImportTables, RevertedLeavesNothing, RowsOfBatch
<1>4. CASE PreviewStep
  <2>1. UNCHANGED <<importBatches, importRows, legacyRecords>>
    BY <1>4, Zenon DEF PreviewStep, CorrectImportRow, UseRow, DecideRow, ChooseMatch,
                       CancelPreview, ChangeRow
  <2>2. QED
    BY <1>0, <2>1
<1>5. CASE UNCHANGED importVars
  BY <1>0, <1>5 DEF importVars
<1>6. CASE UNCHANGED studentImportVars
  BY <1>0, <1>6 DEF studentImportVars, importVars
<1>7. ASSUME NEW b \in ImportBatch, RevertLooks(b) \/ RevertFails(b)
      PROVE  RevertInv'
  <2>1. UNCHANGED <<importBatches, importRows, legacyRecords>>
    BY <1>7, Zenon DEF RevertLooks, RevertFails
  <2>2. QED
    BY <1>0, <2>1
<1>8. ASSUME NEW source, NEW target, MoveImports(source, target)
      PROVE  RevertInv'
  <2>1. /\ legacyRecords' =
             {<<x[1], IF x[2] = source THEN target ELSE x[2]>> : x \in legacyRecords}
        /\ importRows' = [r \in ImportRow |->
             [importRows[r] EXCEPT !.created = IF @ = source THEN target ELSE @]]
        /\ importBatches' = importBatches
    BY <1>8, Zenon DEF MoveImports
  <2>2. ASSUME NEW r \in ImportRow
        PROVE  /\ DOMAIN importRows'[r] = {"batch", "status", "created"}
               /\ importRows'[r].batch = importRows[r].batch
               /\ importRows'[r].status = importRows[r].status
    <3>1. PICK created : importRows'[r] = [importRows[r] EXCEPT !.created = created]
      BY <2>1
    <3>2. QED
      BY <3>1 DEF RevertInv, ImportTables
  <2>3. ASSUME NEW y \in legacyRecords'
        PROVE  \E x \in legacyRecords : y[1] = x[1]
    BY <2>1, <2>3
  <2>4. importRows' = [r \in ImportRow |-> importRows'[r]]
    BY <2>1
  <2>5. QED
    BY <2>1, <2>2, <2>3, <2>4 DEF RevertInv, ImportTables, RevertedLeavesNothing, RowsOfBatch
<1>9. QED
  BY <1>1, <1>2, <1>3, <1>4, <1>5, <1>6, <1>7, <1>8
     DEF StudentImportNext, ImportStep, MergeStep

\* For any files, requests and reverts at once: a reverted batch has left no
\* legacy record and no row that counts as imported, as the function that takes
\* a row asks again, under a lock, whether the batch is open.
THEOREM RevertedLeavesNothingHolds == StudentImportSpec => []RevertedLeavesNothing
<1>1. RevertInv => RevertedLeavesNothing
  BY DEF RevertInv
<1>2. QED
  BY <1>1, RevertStart, RevertStep, PTL DEF StudentImportSpec

\* The table of students, and one row of it written by anything but a revert.
StudentTable ==
  /\ students = [s \in Student |-> students[s]]
  /\ \A s \in Student : DOMAIN students[s] = {"status", "home", "edited"}
InMerge(s) == \E x \in mergeEvents : s \in {x[1], x[2]}
Spares(s) ==
  students'[s].status = "removed" =>
    /\ \E b \in DOMAIN reverting : s \in reverting[b].idle
    /\ s \notin Enrolled /\ ~InMerge(s)

LEMMA StudentWritten ==
  ASSUME StudentTable, NEW s \in Student, NEW row,
         DOMAIN row = {"status", "home", "edited"}, row.status # "removed",
         students' = [students EXCEPT ![s] = row]
  PROVE  StudentTable' /\ \A x \in Known : Spares(x)
<1>1. /\ students' = [x \in Student |-> students'[x]] /\ students'[s] = row
      /\ \A x \in Student \ {s} : students'[x] = students[x]
  BY DEF StudentTable
<1>2. \A x \in Known : x \in Student /\ students[x].status # "removed"
  BY DEF Known
<1>3. QED
  BY <1>1, <1>2 DEF StudentTable, Spares

LEMMA StudentStepSpares ==
  ASSUME StudentTable, StudentStep
  PROVE  StudentTable' /\ \A x \in Known : Spares(x)
<1>1. ASSUME NEW s \in Student, NEW home, NEW asDraft, NEW requested, NEW missing, NEW late,
             SaveStudent(s, home, asDraft, requested, missing, late)
      PROVE  StudentTable' /\ \A x \in Known : Spares(x)
  <2>1. PICK status : status = Lifecycle(asDraft, requested, missing)
    OBVIOUS
  <2>2. status # "removed"
    BY <1>1, <2>1 DEF SaveStudent, Lifecycle, Requested
  <2>3. PICK was : was = [students[s] EXCEPT !.home = home, !.status = status]
    OBVIOUS
  <2>4. DOMAIN was = {"status", "home", "edited"} /\ was.status = status
    BY <2>3 DEF StudentTable
  <2>5. students' = [students EXCEPT ![s] = IF s \in Known THEN Updated(was, late) ELSE was]
    BY <1>1, <2>1, <2>3 DEF SaveStudent, StudentTable
  <2>6. /\ DOMAIN Updated(was, late) = {"status", "home", "edited"}
        /\ Updated(was, late).status = status
    BY <2>4 DEF Updated
  <2>7. PICK row : row = IF s \in Known THEN Updated(was, late) ELSE was
    OBVIOUS
  <2>8. QED
    BY <2>2, <2>4, <2>5, <2>6, <2>7, StudentWritten
<1>2. ASSUME NEW s \in Student, NEW action, NEW late, RecordAction(s, action, late)
      PROVE  StudentTable' /\ \A x \in Known : Spares(x)
  <2>1. PICK was : was = IF action = "archive" THEN [students[s] EXCEPT !.status = "archived"]
                         ELSE students[s]
    OBVIOUS
  <2>2. DOMAIN was = {"status", "home", "edited"} /\ was.status # "removed"
    BY <1>2, <2>1 DEF RecordAction, Known, StudentTable
  <2>3. PICK row : row = Updated(was, late)
    OBVIOUS
  <2>4. DOMAIN row = {"status", "home", "edited"} /\ row.status # "removed"
    BY <2>2, <2>3 DEF Updated
  <2>5. students' = [students EXCEPT ![s] = row]
    BY <1>2, <2>1, <2>3 DEF RecordAction, StudentTable
  <2>6. QED
    BY <2>4, <2>5, StudentWritten
<1>3. ASSUME NEW s, LinkDocument(s)
      PROVE  StudentTable' /\ \A x \in Known : Spares(x)
  BY <1>3 DEF LinkDocument, StudentTable, Spares, Known
<1>4. QED
  BY <1>1, <1>2, <1>3 DEF StudentStep

LEMMA MergeSpares ==
  ASSUME StudentTable, NEW source \in Student, NEW target, NEW late,
         MergeStudents(source, target, late)
  PROVE  StudentTable' /\ \A x \in Known : Spares(x)
<1>1. PICK row : row = Updated([students[source] EXCEPT !.status = "merged"], late)
  OBVIOUS
<1>2. DOMAIN row = {"status", "home", "edited"} /\ row.status # "removed"
  BY <1>1 DEF Updated, StudentTable
<1>3. students' = [students EXCEPT ![source] = row]
  BY <1>1 DEF MergeStudents, StudentTable
<1>4. QED
  BY <1>2, <1>3, StudentWritten

\* A row of a batch under revert that is not marked created nobody, or a student
\* that was idle when the revert looked, or, since, one of a merge.
Accounted(b, r) == importRows[r].created \in {NoStudent} \cup reverting[b].idle
                 \/ InMerge(importRows[r].created)
RevertSaw ==
  \A b \in DOMAIN reverting : \A r \in RowsOfBatch(b) \ reverting[b].blocked : Accounted(b, r)

\* A step that writes rows of no batch under revert, or keeps what they created.
LEMMA OthersWritten ==
  ASSUME RevertSaw, UNCHANGED reverting, mergeEvents \subseteq mergeEvents',
         \A b \in DOMAIN reverting : \A r \in ImportRow :
           importRows'[r].batch = b =>
             \/ importRows'[r].created = NoStudent \/ InMerge(importRows[r].created)'
             \/ importRows[r].batch = b /\ importRows'[r].created = importRows[r].created
  PROVE  RevertSaw'
<1>1. \A s : InMerge(s) => InMerge(s)'
  BY DEF InMerge
<1>2. ASSUME NEW b \in DOMAIN reverting, NEW r \in ImportRow, importRows'[r].batch = b,
             r \notin reverting[b].blocked
      PROVE  Accounted(b, r)'
  <2>1. CASE importRows'[r].created = NoStudent \/ InMerge(importRows[r].created)'
    BY <2>1 DEF Accounted
  <2>2. CASE importRows[r].batch = b /\ importRows'[r].created = importRows[r].created
    <3>1. Accounted(b, r)
      BY <1>2, <2>2 DEF RevertSaw, RowsOfBatch
    <3>2. QED
      BY <1>1, <2>2, <3>1 DEF Accounted
  <2>3. QED
    BY <1>2, <2>1, <2>2
<1>3. QED
  BY <1>2 DEF RevertSaw, RowsOfBatch

LEMMA SawStart == StudentImportInit => RevertSaw
BY DEF StudentImportInit, RevertSaw

LEMMA SawStep ==
  ASSUME ImportTypes, RevertSaw, [StudentImportNext]_studentImportVars
  PROVE  RevertSaw'
<1>0. ASSUME UNCHANGED <<importRows, reverting, mergeEvents>>
      PROVE  RevertSaw'
  BY <1>0 DEF RevertSaw, RowsOfBatch, Accounted, InMerge
<1>1. ASSUME NEW q \in ImportCall, ParseStep(q)
      PROVE  RevertSaw'
  <2>1. CASE ClearRows(q)
    <3>1. /\ importRows' = [r \in ImportRow |->
               IF r \in RowsOfBatch(importCalls[q].batch) THEN DeletedRow ELSE importRows[r]]
          /\ UNCHANGED <<reverting, mergeEvents>>
      BY <2>1, Zenon DEF ClearRows, studentVars
    <3>2. DeletedRow.created = NoStudent
      BY DEF DeletedRow, NoImportRow
    <3>3. QED
      BY <3>1, <3>2, OthersWritten
  <2>2. CASE InsertImportRows(q)
    <3>1. PICK id : importRows' = [r \in ImportRow |->
                      IF \E n \in DOMAIN id : id[n] = r
                      THEN [batch |-> importCalls[q].batch, status |-> "pending",
                            created |-> NoStudent]
                      ELSE importRows[r]]
      BY <2>2, Zenon DEF InsertImportRows
    <3>2. UNCHANGED <<reverting, mergeEvents>>
      BY <2>2, Zenon DEF InsertImportRows, studentVars
    <3>3. \A r \in ImportRow :
            \/ importRows'[r] = importRows[r]
            \/ importRows'[r].created = NoStudent
      BY <3>1
    <3>4. QED
      BY <3>2, <3>3, OthersWritten
  <2>3. CASE ~ClearRows(q) /\ ~InsertImportRows(q)
    <3>1. UNCHANGED <<importRows, reverting, mergeEvents>>
      BY <1>1, <2>3, Zenon DEF ParseStep, ParseNew, ParseAgain, ReplaceBatch, studentVars
    <3>2. QED
      BY <1>0, <3>1
  <2>4. QED
    BY <2>1, <2>2, <2>3
<1>2. ASSUME NEW q \in ImportCall, ConfirmStep(q)
      PROVE  RevertSaw'
  <2>1. ASSUME NEW r, NEW status, UNCHANGED <<reverting, mergeEvents>>,
               importRows' = [importRows EXCEPT ![r].status = status]
        PROVE  RevertSaw'
    <3>1. \A x \in ImportRow : importRows'[x].batch = importRows[x].batch
                                 /\ importRows'[x].created = importRows[x].created
      BY <2>1 DEF ImportTypes, ImportStores, ImportedRow
    <3>2. QED
      BY <2>1, <3>1, OthersWritten
  <2>2. ASSUME NEW r, SkipRow(q, r)
        PROVE  RevertSaw'
    <3>1. UNCHANGED <<reverting, mergeEvents>>
      BY <2>2, Zenon DEF SkipRow, studentVars
    <3>2. QED
      BY <2>1, <2>2, <3>1, Zenon DEF SkipRow
  <2>3. ASSUME NEW r, FailStudentRow(q, r)
        PROVE  RevertSaw'
    <3>1. UNCHANGED <<reverting, mergeEvents>>
      BY <2>3, Zenon DEF FailStudentRow, studentVars
    <3>2. QED
      BY <1>0, <2>1, <2>3, <3>1, Zenon DEF FailStudentRow
  <2>4. ASSUME NEW r, NEW s, TakeStudentRow(q, r, s)
        PROVE  RevertSaw'
    <3>1. UNCHANGED <<reverting, mergeEvents>> /\ importRows[r].batch \notin DOMAIN reverting
      BY <2>4, Zenon DEF TakeStudentRow, UnderRevert
    <3>2. PICK status, created :
            importRows' = [importRows EXCEPT ![r].status = status, ![r].created = created]
      BY <2>4 DEF TakeStudentRow
    <3>3. PICK row : row = [importRows[r] EXCEPT !.status = status, !.created = created]
      OBVIOUS
    <3>4. importRows' = [importRows EXCEPT ![r] = row]
      BY <3>2, <3>3 DEF ImportTypes, ImportStores
    <3>5. r \in ImportRow => row.batch = importRows[r].batch
      BY <3>3 DEF ImportTypes, ImportStores, ImportedRow
    <3>6. /\ \A x \in ImportRow \ {r} : importRows'[x] = importRows[x]
          /\ r \in ImportRow => importRows'[r].batch = importRows[r].batch
      BY <3>4, <3>5 DEF ImportTypes, ImportStores
    <3>7. QED
      BY <3>1, <3>6, OthersWritten
  <2>5. ASSUME ConfirmImport(q) \/ StartImport(q) \/ FinishImport(q) \/ ImportCallDies(q)
        PROVE  RevertSaw'
    <3>1. UNCHANGED <<importRows, reverting, mergeEvents>>
      BY <2>5, Zenon DEF ConfirmImport, StartImport, FinishImport, ImportCallDies, studentVars
    <3>2. QED
      BY <1>0, <3>1
  <2>6. QED
    BY <1>2, <2>2, <2>3, <2>4, <2>5 DEF ConfirmStep
<1>3. ASSUME NEW b, EndRevert(b), mergeEvents' = mergeEvents,
             \A r \in ImportRow :
               /\ importRows'[r].batch = importRows[r].batch
               /\ importRows'[r].created \in {NoStudent, importRows[r].created}
      PROVE  RevertSaw'
  <2>1. ASSUME NEW c \in DOMAIN reverting \ {b}, NEW r \in ImportRow,
               importRows'[r].batch = c, r \notin reverting[c].blocked
        PROVE  importRows'[r].created \in {NoStudent} \cup reverting[c].idle
               \/ InMerge(importRows'[r].created)
    BY <1>3, <2>1 DEF RevertSaw, RowsOfBatch, Accounted
  <2>2. DOMAIN reverting' = DOMAIN reverting \ {b}
        /\ \A c \in DOMAIN reverting \ {b} : reverting'[c] = reverting[c]
    BY <1>3 DEF EndRevert
  <2>3. \A s : InMerge(s)' <=> InMerge(s)
    BY <1>3 DEF InMerge
  <2>4. QED
    BY <2>1, <2>2, <2>3 DEF RevertSaw, RowsOfBatch, Accounted
<1>4. ASSUME NEW b \in ImportBatch, RevertLooks(b)
      PROVE  RevertSaw'
  <2>0. PICK left, blocked, idle :
          /\ left = {x \in legacyRecords : x[1] # b}
          /\ blocked = {r \in RowsOfBatch(b) : importRows[r].created # NoStudent
                                               /\ WorkedOn(importRows[r].created, left)}
          /\ idle = Created(RowsOfBatch(b)) \
                      (Enrolled \cup documentLinks \cup {x[2] : x \in left}
                       \cup {s \in Created(RowsOfBatch(b)) : students[s].edited})
    OBVIOUS
  <2>1. reverting' = [c \in DOMAIN reverting \cup {b} |->
          IF c = b THEN [blocked |-> blocked, idle |-> idle] ELSE reverting[c]]
    BY <1>4, <2>0, Zenon DEF RevertLooks
  <2>2. UNCHANGED <<importRows, mergeEvents>>
    BY <1>4, Zenon DEF RevertLooks, studentVars
  <2>3. ASSUME NEW r \in RowsOfBatch(b), r \notin blocked
        PROVE  importRows[r].created \in {NoStudent} \cup idle
    <3>1. CASE importRows[r].created # NoStudent
      <4>1. ~WorkedOn(importRows[r].created, left)
        BY <2>0, <2>3, <3>1
      <4>2. importRows[r].created \in Created(RowsOfBatch(b))
        BY <2>3, <3>1 DEF Created
      <4>3. QED
        BY <2>0, <4>1, <4>2 DEF WorkedOn
    <3>2. QED
      BY <3>1
  <2>4. /\ reverting'[b].blocked = blocked /\ reverting'[b].idle = idle
        /\ \A c \in DOMAIN reverting \ {b} : reverting'[c] = reverting[c]
        /\ DOMAIN reverting' = DOMAIN reverting \cup {b}
    BY <2>1
  <2>5. \A s : InMerge(s)' <=> InMerge(s)
    BY <2>2 DEF InMerge
  <2>6. ASSUME NEW c \in DOMAIN reverting', NEW r \in RowsOfBatch(c),
               r \notin reverting'[c].blocked
        PROVE  Accounted(c, r)'
    <3>1. CASE c = b
      BY <2>2, <2>3, <2>4, <2>6, <3>1 DEF Accounted
    <3>2. CASE c # b
      <4>1. Accounted(c, r)
        BY <2>4, <2>6, <3>2 DEF RevertSaw
      <4>2. QED
        BY <2>2, <2>4, <2>5, <2>6, <3>2, <4>1 DEF Accounted
    <3>3. QED
      BY <3>1, <3>2
  <2>7. QED
    BY <2>2, <2>6 DEF RevertSaw, RowsOfBatch
<1>5. ASSUME NEW b \in ImportBatch, RevertRemoves(b)
      PROVE  RevertSaw'
  <2>1. PICK gone : importRows' = [r \in ImportRow |->
          [importRows[r] EXCEPT
             !.created = IF importRows[r].created \in gone THEN NoStudent
                         ELSE importRows[r].created,
             !.status = CASE r \in reverting[b].blocked -> "revert_blocked"
                          [] r \in RowsOfBatch(b) \ reverting[b].blocked
                             /\ @ \notin {"pending", "revert_blocked"} -> "reverted"
                          [] OTHER -> @]]
    BY <1>5, Zenon DEF RevertRemoves
  <2>2. EndRevert(b) /\ mergeEvents' = mergeEvents
    BY <1>5, Zenon DEF RevertRemoves
  <2>3. ASSUME NEW r \in ImportRow
        PROVE  /\ importRows'[r].batch = importRows[r].batch
               /\ importRows'[r].created \in {NoStudent, importRows[r].created}
    <3>1. PICK status \in {"reverted", "revert_blocked", importRows[r].status},
               created \in {NoStudent, importRows[r].created} :
            importRows'[r] = [importRows[r] EXCEPT !.created = created, !.status = status]
      BY <2>1
    <3>2. QED
      BY <3>1 DEF ImportTypes, ImportStores, ImportedRow
  <2>4. QED
    BY <1>3, <2>2, <2>3
<1>6. ASSUME NEW b \in ImportBatch, RevertFails(b)
      PROVE  RevertSaw'
  <2>1. EndRevert(b) /\ UNCHANGED <<importRows, mergeEvents>>
    BY <1>6, Zenon DEF RevertFails, studentVars
  <2>2. QED
    BY <1>3, <2>1
<1>7. ASSUME NEW source, NEW target, NEW late, MergeStudents(source, target, late),
             MoveImports(source, target)
      PROVE  RevertSaw'
  <2>1. /\ importRows' = [r \in ImportRow |->
             [importRows[r] EXCEPT !.created = IF @ = source THEN target ELSE @]]
        /\ UNCHANGED reverting
    BY <1>7, Zenon DEF MoveImports
  <2>2. mergeEvents' = mergeEvents \cup {<<source, target>>}
    BY <1>7, Zenon DEF MergeStudents
  <2>3. InMerge(target)'
    <3>1. <<source, target>> \in mergeEvents' /\ target \in {<<source, target>>[1], <<source, target>>[2]}
      BY <2>2
    <3>2. QED
      BY <3>1 DEF InMerge
  <2>4. ASSUME NEW r \in ImportRow
        PROVE  /\ importRows'[r].batch = importRows[r].batch
               /\ importRows'[r].created \in {target, importRows[r].created}
    <3>1. PICK created \in {target, importRows[r].created} :
            importRows'[r] = [importRows[r] EXCEPT !.created = created]
      BY <2>1
    <3>2. QED
      BY <3>1 DEF ImportTypes, ImportStores, ImportedRow
  <2>5. QED
    BY <2>1, <2>2, <2>3, <2>4, OthersWritten
<1>8. CASE PreviewStep
  <2>1. UNCHANGED <<importRows, reverting, mergeEvents>>
    BY <1>8, Zenon DEF PreviewStep, CorrectImportRow, UseRow, DecideRow, ChooseMatch,
                       CancelPreview, ChangeRow, studentVars
  <2>2. QED
    BY <1>0, <2>1
<1>9. CASE (StudentStep \/ StudyStep) /\ UNCHANGED importVars
  <2>1. mergeEvents' = mergeEvents
    <3>1. StudentStep => mergeEvents' = mergeEvents
      <4>1. \A s, home, asDraft, requested, missing, late :
              SaveStudent(s, home, asDraft, requested, missing, late)
                => mergeEvents' = mergeEvents
        BY SMT DEF SaveStudent
      <4>2. \A s, action, late : RecordAction(s, action, late) \/ LinkDocument(s)
                                   => mergeEvents' = mergeEvents
        BY SMT DEF RecordAction, LinkDocument
      <4>3. QED
        BY <4>1, <4>2, Zenon DEF StudentStep
    <3>2. \A p, asDraft, requested, low, high :
            SaveProgramme(p, asDraft, requested, low, high) => mergeEvents' = mergeEvents
      BY Zenon DEF SaveProgramme
    <3>3. \A q, i, p, branch, status, start, expected, reason :
            ReadIntake(q, i, p, branch, status, start, expected, reason)
              => mergeEvents' = mergeEvents
      BY SMT DEF ReadIntake
    <3>4. \A q, e, s, i, status, amount, paid, submitted :
            ReadEnrolment(q, e, s, i, status, amount, paid, submitted)
              => mergeEvents' = mergeEvents
      BY SMT DEF ReadEnrolment
    <3>5. \A q : WriteIntake(q) \/ WriteEnrolment(q) \/ RecordCallDies(q)
                  => mergeEvents' = mergeEvents
      BY Zenon DEF WriteIntake, WriteEnrolment, RecordCallDies
    <3>6. StudyStep => mergeEvents' = mergeEvents
      BY <3>2, <3>3, <3>4, <3>5, Zenon DEF StudyStep
    <3>7. QED
      BY <1>9, <3>1, <3>6
  <2>2. QED
    BY <1>0, <1>9, <2>1 DEF importVars
<1>10. CASE UNCHANGED studentImportVars
  BY <1>0, <1>10 DEF studentImportVars, importVars, studentVars
<1>11. QED
  BY <1>1, <1>2, <1>4, <1>5, <1>6, <1>7, <1>8, <1>9, <1>10
     DEF StudentImportNext, ImportStep, MergeStep

LEMMA ImportSpares ==
  ASSUME StudentTable, RevertSaw, [StudentImportNext]_studentImportVars
  PROVE  StudentTable' /\ \A x \in Known : Spares(x)
<1>0. ASSUME students' = students
      PROVE  StudentTable' /\ \A x \in Known : Spares(x)
  BY <1>0 DEF StudentTable, Spares, Known
<1>1. ASSUME NEW q \in ImportCall, ParseStep(q)
      PROVE  StudentTable' /\ \A x \in Known : Spares(x)
  <2>1. students' = students
    BY <1>1, Zenon DEF ParseStep, ParseNew, ParseAgain, ClearRows, ReplaceBatch,
                       InsertImportRows, studentVars
  <2>2. QED
    BY <1>0, <2>1
<1>2. ASSUME NEW q \in ImportCall, ConfirmStep(q)
      PROVE  StudentTable' /\ \A x \in Known : Spares(x)
  <2>1. ASSUME NEW r, NEW s \in Student, TakeStudentRow(q, r, s)
        PROVE  StudentTable' /\ \A x \in Known : Spares(x)
    <3>1. \/ students' = students
          \/ students' = [students EXCEPT ![s] = [NoStudentRow EXCEPT !.status = "draft"]]
      BY <2>1 DEF TakeStudentRow
    <3>2. PICK row : row = [NoStudentRow EXCEPT !.status = "draft"]
      OBVIOUS
    <3>3. DOMAIN row = {"status", "home", "edited"} /\ row.status # "removed"
      BY <3>2 DEF NoStudentRow
    <3>4. QED
      BY <1>0, <3>1, <3>2, <3>3, StudentWritten
  <2>2. CASE ~ \E r, s : s \in Student /\ TakeStudentRow(q, r, s)
    <3>1. students' = students
      BY <1>2, <2>2, Zenon DEF ConfirmStep, ConfirmImport, StartImport, FinishImport,
                               ImportCallDies, SkipRow, FailStudentRow, studentVars
    <3>2. QED
      BY <1>0, <3>1
  <2>3. QED
    BY <2>1, <2>2
<1>3. ASSUME NEW b \in ImportBatch, RevertRemoves(b)
      PROVE  StudentTable' /\ \A x \in Known : Spares(x)
  <2>1. PICK gone : /\ gone = Removable(b)
                    /\ students' = [s \in Student |->
                         IF s \in gone THEN [NoStudentRow EXCEPT !.status = "removed"]
                         ELSE students[s]]
                    /\ gone \cap Enrolled = {}
                    /\ \A x \in mergeEvents : x[1] \notin gone /\ x[2] \notin gone
    BY <1>3, Zenon DEF RevertRemoves
  <2>2. DOMAIN [NoStudentRow EXCEPT !.status = "removed"] = {"status", "home", "edited"}
    BY DEF NoStudentRow
  <2>3. StudentTable'
    BY <2>1, <2>2 DEF StudentTable
  <2>4. ASSUME NEW x \in Known
        PROVE  Spares(x)
    <3>1. x \in Student /\ students[x].status # "removed"
      BY <2>4 DEF Known
    <3>2. CASE x \in gone
      <4>1. ~InMerge(x) /\ x \notin Enrolled
        BY <2>1, <3>2 DEF InMerge
      <4>2. b \in DOMAIN reverting
        BY <1>3, Zenon DEF RevertRemoves, UnderRevert
      <4>3. PICK r \in RowsOfBatch(b) \ reverting[b].blocked :
              x = importRows[r].created /\ x # NoStudent
        BY <2>1, <3>2 DEF Removable, Created
      <4>4. Accounted(b, r)
        BY <4>2, <4>3 DEF RevertSaw
      <4>5. x \in reverting[b].idle
        BY <4>1, <4>3, <4>4 DEF Accounted
      <4>6. QED
        BY <4>1, <4>2, <4>5 DEF Spares
    <3>3. CASE x \notin gone
      BY <2>1, <3>1, <3>3 DEF Spares
    <3>4. QED
      BY <3>2, <3>3
  <2>5. QED
    BY <2>3, <2>4
<1>4. CASE PreviewStep
  <2>1. students' = students
    BY <1>4, Zenon DEF PreviewStep, CorrectImportRow, UseRow, DecideRow, ChooseMatch,
                       CancelPreview, ChangeRow, studentVars
  <2>2. QED
    BY <1>0, <2>1
<1>5. CASE StudyStep
  <2>1. students' = students
    <3>1. \A p, asDraft, requested, low, high :
            SaveProgramme(p, asDraft, requested, low, high) => students' = students
      BY Zenon DEF SaveProgramme
    <3>2. \A q, i, p, branch, status, start, expected, reason :
            ReadIntake(q, i, p, branch, status, start, expected, reason)
              => students' = students
      BY SMT DEF ReadIntake
    <3>3. \A q, e, s, i, status, amount, paid, submitted :
            ReadEnrolment(q, e, s, i, status, amount, paid, submitted) => students' = students
      BY SMT DEF ReadEnrolment
    <3>4. \A q : WriteIntake(q) \/ WriteEnrolment(q) \/ RecordCallDies(q)
                  => students' = students
      BY Zenon DEF WriteIntake, WriteEnrolment, RecordCallDies
    <3>5. QED
      BY <1>5, <3>1, <3>2, <3>3, <3>4, Zenon DEF StudyStep
  <2>2. QED
    BY <1>0, <2>1
<1>6. CASE UNCHANGED studentImportVars
  BY <1>0, <1>6 DEF studentImportVars, studentVars
<1>7. ASSUME NEW b, RevertLooks(b) \/ RevertFails(b)
      PROVE  StudentTable' /\ \A x \in Known : Spares(x)
  <2>1. students' = students
    BY <1>7, Zenon DEF RevertLooks, RevertFails, studentVars
  <2>2. QED
    BY <1>0, <2>1
<1>8. QED
  BY <1>1, <1>2, <1>3, <1>4, <1>5, <1>6, <1>7, StudentStepSpares, MergeSpares
     DEF StudentImportNext, ImportStep, MergeStep

\* Of all that may be done to a student only the revert of a batch removes one.
\* The statement that removes runs after the one that looked, and sees what was
\* committed in between (0018:570-616); still what it removes was idle when it
\* looked, as rows of the batch wait and a merge puts a student beyond it.
THEOREM RevertSparesWhatItSawHolds == StudentImportSpec => RevertSparesWhatItSaw
<1>1. StudentImportInit => RecordTypes /\ ImportTypes /\ StudentTable /\ RevertSaw
  <2>1. StudentImportInit => StudentTable
    BY DEF StudentImportInit, StudentRecordsInit, StudentTable, NoStudentRow
  <2>2. QED
    BY <2>1, RecordTypesStart, ImportTypesStart, SawStart DEF StudentImportInit
<1>2. RecordTypes /\ ImportTypes /\ StudentTable /\ RevertSaw
        /\ [StudentImportNext]_studentImportVars
        => /\ (RecordTypes /\ ImportTypes /\ StudentTable /\ RevertSaw)'
           /\ \A x \in Known : Spares(x)
  BY ImportTypesStep, SawStep, ImportSpares
<1>3. (\A x \in Known : Spares(x)) =>
      (\A s \in Known : students'[s].status = "removed" =>
         /\ \E b \in DOMAIN reverting : s \in reverting[b].idle
         /\ s \notin Enrolled /\ \A x \in mergeEvents : s \notin {x[1], x[2]})
  BY DEF Spares, InMerge
<1>4. QED
  BY <1>1, <1>2, <1>3, PTL DEF StudentImportSpec, RevertSparesWhatItSaw

-----------------------------------------------------------------------------
(* All the components as one specification *)

\* What the runs leave out of a part are steps of its component all the same.
LEMMA StudentPartIsImport ==
  ASSUME StudentPartStep
  PROVE  StudentImportNext /\ part \in StudentParts
<1>1. DraftSaved => StudentStep
  <2>1. SomeBranch \in Branch /\ "active" \in Requested
    BY StudentRecordsAssumption DEF SomeBranch, Requested
  <2> QED BY <2>1, Zenon DEF DraftSaved, StudentStep
<1>2. RecordWork => StudentStep
  BY <1>1, Zenon DEF RecordWork, StudentStep
<1>3. OneMerge => MergeStep
  BY Zenon DEF OneMerge, MergeStep
<1>4. EnrolWork => StudentStep \/ StudyStep
  <2>1. "enrolled" \in EnrolmentStatus /\ -1 \in Fee /\ "not_paid" \in RegistrationStatus
    BY StudentRecordsAssumption DEF EnrolmentStatus, Fee, RegistrationStatus
  <2> QED BY <1>1, <2>1, Zenon DEF EnrolWork, StudyStep
<1>5. StudyWork => StudentStep \/ StudyStep
  <2>1. SomeBranch \in Branch /\ "active" \in Requested
    BY StudentRecordsAssumption DEF SomeBranch, Requested
  <2> QED BY <2>1, Zenon DEF StudyWork, StudentStep
<1>6. ImportWork => ImportStep \/ PreviewStep
  BY DEF ImportWork
<1> QED BY <1>2, <1>3, <1>4, <1>5, <1>6 DEF StudentPartStep, StudentImportNext, StudentParts

LEMMA PartsMove ==
  ASSUME [OperationsStep]_AllVars
  PROVE  /\ [BankImportNext]_bankImportVars
         /\ [BankAllocationNext]_allocationVars
         /\ [StatementNext]_statementVars
         /\ [MatchingNext]_matchingVars
         /\ [DocumentsNext]_documentVars
         /\ [RecurringNext]_recurringVars
         /\ [SupplierNext]_supplierVars
         /\ [IntakeReviewNext]_intakeVars
         /\ [GateNext]_gateVars
         /\ [ClaimImportNext]_claimImportVars
         /\ [ClaimFormNext]_claimFormVars
         /\ [RegisterImportNext]_registerImportVars
         /\ [StudentImportNext]_studentImportVars
<1>1. CASE UNCHANGED AllVars
  BY <1>1 DEF AllVars
<1>2. CASE OperationsStep
  <2>1. [BankImportNext]_bankImportVars
    <3>1. CASE part = "bank"
      BY <1>2, <3>1, StudentPartIsImport DEF OperationsStep, Step, StudentParts
    <3>2. CASE part # "bank"
      BY <1>2, <3>2 DEF OperationsStep, Still
    <3> QED BY <3>1, <3>2
  <2>2. [BankAllocationNext]_allocationVars
    <3>1. CASE part = "allocation"
      BY <1>2, <3>1, StudentPartIsImport DEF OperationsStep, Step, StudentParts
    <3>2. CASE part # "allocation"
      BY <1>2, <3>2 DEF OperationsStep, Still
    <3> QED BY <3>1, <3>2
  <2>3. [StatementNext]_statementVars
    <3>1. CASE part = "statement"
      BY <1>2, <3>1, StudentPartIsImport DEF OperationsStep, Step, StudentParts
    <3>2. CASE part # "statement"
      BY <1>2, <3>2 DEF OperationsStep, Still
    <3> QED BY <3>1, <3>2
  <2>4. [MatchingNext]_matchingVars
    <3>1. CASE part = "matching"
      BY <1>2, <3>1, StudentPartIsImport DEF OperationsStep, Step, StudentParts
    <3>2. CASE part # "matching"
      BY <1>2, <3>2 DEF OperationsStep, Still
    <3> QED BY <3>1, <3>2
  <2>5. [DocumentsNext]_documentVars
    <3>1. CASE part = "documents"
      BY <1>2, <3>1, StudentPartIsImport DEF OperationsStep, Step, StudentParts
    <3>2. CASE part # "documents"
      BY <1>2, <3>2 DEF OperationsStep, Still
    <3> QED BY <3>1, <3>2
  <2>6. [RecurringNext]_recurringVars
    <3>1. CASE part = "recurring"
      BY <1>2, <3>1, StudentPartIsImport DEF OperationsStep, Step, StudentParts
    <3>2. CASE part # "recurring"
      BY <1>2, <3>2 DEF OperationsStep, Still
    <3> QED BY <3>1, <3>2
  <2>7. [SupplierNext]_supplierVars
    <3>1. CASE part = "supplier"
      BY <1>2, <3>1, StudentPartIsImport DEF OperationsStep, Step, StudentParts
    <3>2. CASE part # "supplier"
      BY <1>2, <3>2 DEF OperationsStep, Still
    <3> QED BY <3>1, <3>2
  <2>8. [IntakeReviewNext]_intakeVars
    <3>1. CASE part = "review"
      BY <1>2, <3>1, StudentPartIsImport DEF OperationsStep, Step, StudentParts, ReviewPart
    <3>2. CASE part # "review"
      BY <1>2, <3>2 DEF OperationsStep, Still
    <3> QED BY <3>1, <3>2
  <2>9. [GateNext]_gateVars
    <3>1. CASE part = "gate"
      BY <1>2, <3>1, StudentPartIsImport DEF OperationsStep, Step, StudentParts
    <3>2. CASE part # "gate"
      BY <1>2, <3>2 DEF OperationsStep, Still
    <3> QED BY <3>1, <3>2
  <2>10. [ClaimImportNext]_claimImportVars
    <3>1. CASE part \in {"card_screen", "card_calls"}
      BY <1>2, <3>1, StudentPartIsImport DEF OperationsStep, Step, StudentParts
    <3>2. CASE part \notin {"card_screen", "card_calls"}
      BY <1>2, <3>2 DEF OperationsStep, Still
    <3> QED BY <3>1, <3>2
  <2>11. [ClaimFormNext]_claimFormVars
    <3>1. CASE part = "form"
      BY <1>2, <3>1, StudentPartIsImport DEF OperationsStep, Step, StudentParts
    <3>2. CASE part # "form"
      BY <1>2, <3>2 DEF OperationsStep, Still
    <3> QED BY <3>1, <3>2
  <2>12. [RegisterImportNext]_registerImportVars
    <3>1. CASE part = "register"
      BY <1>2, <3>1, StudentPartIsImport DEF OperationsStep, Step, StudentParts, RegisterPart
    <3>2. CASE part # "register"
      BY <1>2, <3>2 DEF OperationsStep, Still
    <3> QED BY <3>1, <3>2
  <2>13. [StudentImportNext]_studentImportVars
    <3>1. CASE part \in StudentParts
      <4>1. StudentPartStep
        BY <1>2, <3>1 DEF OperationsStep, Step, StudentParts
      <4> QED BY <4>1, StudentPartIsImport
    <3>2. CASE part \notin StudentParts
      BY <1>2, <3>2 DEF OperationsStep, Still
    <3> QED BY <3>1, <3>2
  <2> QED BY <2>1, <2>2, <2>3, <2>4, <2>5, <2>6, <2>7,
             <2>8, <2>9, <2>10, <2>11, <2>12, <2>13
<1> QED BY <1>1, <1>2

\* Enrolments begin with an intake that is open already.
LEMMA PartRecordsStart ==
  ASSUME MCInit
  PROVE  RecordTypes /\ ImportTypes
<1>1. part = "students_enrol" => IntakeFits(OpenIntake)
  <2> SUFFICES ASSUME part = "students_enrol"
               PROVE  IntakeFits(OpenIntake)
    OBVIOUS
  <2>1. Programme # {} /\ 0 \in Day /\ 1 \in Day
    BY OpenIntakeAssumption, StudentRecordsAssumption DEF MCInit, Day
  <2>2. SomeOf(Programme) \in Programme
    BY <2>1 DEF SomeOf
  <2> QED BY <2>1, <2>2, MissingRowsAreTyped DEF OpenIntake, IntakeFits, IntakeRow, IntakeStatus
<1>2. Registers
  BY MissingRowsAreTyped DEF MCInit, Registers
<1>3. \A i \in Intake : intakes[i] = IF part = "students_enrol" THEN OpenIntake ELSE NoIntakeRow
  BY DEF MCInit
<1>4. intakes = [i \in Intake |-> intakes[i]] /\ \A i \in Intake : IntakeFits(intakes[i])
  BY <1>1, <1>3, MissingRowsAreTyped DEF MCInit
<1>5. Studies
  BY <1>4, MissingRowsAreTyped DEF MCInit, Studies, IntakeFits, EnrolmentFits
<1>6. RecordsHeld
  BY DEF MCInit, RecordsHeld, RecordKnown
<1>7. ImportTypes
  BY NoImportsAreTyped DEF MCInit, ImportTypes, ImportStores, PreviewKept, ImportsHeld, ImportKnown,
                           RevertsKnown
<1> QED BY <1>2, <1>5, <1>6, <1>7 DEF RecordTypes

LEMMA PartsStart ==
  ASSUME MCInit
  PROVE  /\ BankImportInit
         /\ BankAllocationInit
         /\ StatementInit
         /\ MatchingInit
         /\ DocumentsInit
         /\ RecurringInit
         /\ SupplierInit
         /\ IntakeReviewInit
         /\ GateInit
         /\ ClaimImportInit
         /\ ClaimFormInit
         /\ RegisterImportInit
BY DEF MCInit

LEMMA SampleStart == MCInit => sample \in Signal
<1>1. PlainSignal \in Signal
  BY DEF PlainSignal, Signal
<1>2. {-4, -3, -1, 0, 2, 5, 8, 14, 15} \subseteq -30..30
  OBVIOUS
<1>3. AnySignal \subseteq Signal
  BY <1>2 DEF AnySignal, Signal
<1>4. MCInit => sample \in AnySignal \/ sample \in {PlainSignal}
  BY Zenon DEF MCInit
<1> QED BY <1>1, <1>3, <1>4

LEMMA StudentPartStart ==
  ASSUME MCInit, part # "students_enrol"
  PROVE  StudentImportInit
BY DEF MCInit, StudentImportInit, StudentRecordsInit

\* Whatever the parts leave out to keep the instance small, what they do are
\* behaviours of the components: all that is proved of a component holds in
\* the specification of the run too.  Enrolments begin with an open intake,
\* which a student import by itself does not.
THEOREM PartsAreTheirComponents ==
  MCSpec => /\ BankImportSpec /\ BankAllocationSpec /\ StatementSpec /\ MatchingSpec
            /\ DocumentsSpec /\ RecurringSpec /\ SupplierSpec /\ IntakeReviewSpec
            /\ GateSpec /\ ClaimImportSpec /\ ClaimFormSpec /\ RegisterImportSpec
            /\ (part # "students_enrol" => StudentImportSpec)
<1>1. MCSpec => BankImportSpec
  BY PartsStart, PartsMove, PTL DEF MCSpec, BankImportSpec
<1>2. MCSpec => BankAllocationSpec
  BY PartsStart, PartsMove, PTL DEF MCSpec, BankAllocationSpec
<1>3. MCSpec => StatementSpec
  BY PartsStart, PartsMove, PTL DEF MCSpec, StatementSpec
<1>4. MCSpec => MatchingSpec
  BY PartsStart, SampleStart, PartsMove, PTL DEF MCSpec, MatchingSpec
<1>5. MCSpec => DocumentsSpec
  BY PartsStart, PartsMove, PTL DEF MCSpec, DocumentsSpec
<1>6. MCSpec => RecurringSpec
  BY PartsStart, PartsMove, PTL DEF MCSpec, RecurringSpec
<1>7. MCSpec => SupplierSpec
  BY PartsStart, PartsMove, PTL DEF MCSpec, SupplierSpec
<1>8. MCSpec => IntakeReviewSpec
  BY PartsStart, PartsMove, PTL DEF MCSpec, IntakeReviewSpec
<1>9. MCSpec => GateSpec
  BY PartsStart, PartsMove, PTL DEF MCSpec, GateSpec
<1>10. MCSpec => ClaimImportSpec
  BY PartsStart, PartsMove, PTL DEF MCSpec, ClaimImportSpec
<1>11. MCSpec => ClaimFormSpec
  BY PartsStart, PartsMove, PTL DEF MCSpec, ClaimFormSpec
<1>12. MCSpec => RegisterImportSpec
  BY PartsStart, PartsMove, PTL DEF MCSpec, RegisterImportSpec
<1>13. MCSpec => (part # "students_enrol" => StudentImportSpec)
  BY StudentPartStart, PartsMove, PTL DEF MCSpec, StudentImportSpec
<1> QED BY <1>1, <1>2, <1>3, <1>4, <1>5, <1>6, <1>7, <1>8, <1>9, <1>10, <1>11, <1>12, <1>13, PTL

EveryPartTyped ==
  /\ BankImportTypeOK /\ BankAllocationTypeOK /\ StatementTypeOK /\ MatchingTypeOK
  /\ DocumentsTypeOK /\ RecurringTypeOK /\ SupplierTypeOK /\ IntakeReviewTypeOK
  /\ GateTypeOK /\ ClaimImportTypeOK /\ ClaimFormTypeOK /\ RegisterImportTypeOK
  /\ StudentRecordsTypeOK /\ StudentImportTypeOK

LEMMA TypedInEveryPart == EveryPartTyped => OperationsTypeOK
BY Zenon DEF EveryPartTyped, OperationsTypeOK

\* In whichever part a behaviour is, the component that moves keeps its types,
\* and so do all those that rest.
THEOREM OperationsTypeCorrect == MCSpec => []OperationsTypeOK
<1>1. MCSpec => [](/\ BankImportTypeOK /\ BankAllocationTypeOK /\ StatementTypeOK
                   /\ MatchingTypeOK /\ DocumentsTypeOK /\ RecurringTypeOK)
  BY PartsAreTheirComponents, BankImportTypeCorrect, BankAllocationTypeCorrect,
     StatementTypeCorrect, MatchingTypeCorrect, DocumentsTypeCorrect, RecurringTypeCorrect, PTL
<1>2. MCSpec => [](/\ SupplierTypeOK /\ IntakeReviewTypeOK /\ GateTypeOK
                   /\ ClaimImportTypeOK /\ ClaimFormTypeOK /\ RegisterImportTypeOK)
  BY PartsAreTheirComponents, SupplierTypeCorrect, IntakeReviewTypeCorrect, GateTypeCorrect,
     ClaimImportTypeCorrect, ClaimFormTypeCorrect, RegisterImportTypeCorrect, PTL
<1>3. MCSpec => [](StudentRecordsTypeOK /\ StudentImportTypeOK)
  <2>1. RecordTypes /\ ImportTypes => StudentRecordsTypeOK /\ StudentImportTypeOK
    BY RecordsAreTyped, ImportIsTyped
  <2>2. RecordTypes /\ ImportTypes /\ [OperationsStep]_AllVars => RecordTypes' /\ ImportTypes'
    BY PartsMove, ImportTypesStep
  <2> QED BY <2>1, <2>2, PartRecordsStart, PTL DEF MCSpec
<1> QED BY <1>1, <1>2, <1>3, TypedInEveryPart, PTL DEF EveryPartTyped
=============================================================================
