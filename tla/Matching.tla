------------------------------- MODULE Matching -------------------------------
(***************************************************************************)
(* The matching of payments to bank rows: how a pair is scored, which      *)
(* pairs are suggested, and runMatching call by call beside the people who *)
(* decide on the matching screen.                                          *)
(*                                                                         *)
(* A pair is abstracted to what the comparisons of its fields say.  One    *)
(* entity and one currency; all persons are reviewers with AAL2.  The      *)
(* statuses of a payment beyond bank_matched are those of PaymentRegister; *)
(* here they are one, "later".                                             *)
(***************************************************************************)
EXTENDS Integers, FiniteSets

CONSTANTS
  Pay,          \* payments of the register
  Debit,        \* bank rows: the debits that are no bank fee
  SignalOf,     \* what the comparison of each pair says
  Runner,       \* runs of the matching that may be in progress at once
  PerPayment,   \* suggestions per payment: 3
  PerInsert     \* suggestions per insert: 100

-----------------------------------------------------------------------------
(* Scoring a pair *)

Signal ==
  [account : {"unknown", "same", "other"},
   ref     : {"none", "suffix", "exact"},
   diff    : {"none", "rounding", "other"},
   payee   : BOOLEAN,                        \* the beneficiary's account agrees
   name    : {"none", "similar", "prefix", "exact"},
   days    : -30..30]                        \* bank row after the instruction

MaxDaysBefore == 3
MaxDaysAfter == 14
MinScore == 40

InWindow(s) == s.days \in -MaxDaysBefore..MaxDaysAfter
AmountOk(s) == s.diff # "other"

Candidate(s) ==
  /\ s.account # "other"
  /\ AmountOk(s) \/ s.ref # "none"
  /\ InWindow(s) \/ s.ref # "none"

RefPoints(s) == CASE s.ref = "exact" -> 40 [] s.ref = "suffix" -> 38 [] s.ref = "none" -> 0

\* Mutant of AmountPoints: a rounded amount counts as the same amount.
AmountPointsRounded(s) == IF AmountOk(s) THEN 40 + (IF s.name # "none" THEN 10 ELSE 0) ELSE 0

AmountPoints(s) ==
  CASE s.diff = "none"     -> 40
    [] s.diff = "rounding" -> 28 + (IF s.name # "none" THEN 10 ELSE 0)
    [] s.diff = "other"    -> 0
NamePoints(s) ==
  CASE s.name = "exact" -> 15 [] s.name = "prefix" -> 13
    [] s.name = "similar" -> 8 [] s.name = "none" -> 0
DatePoints(s) ==
  LET away == IF s.days < 0 THEN -s.days ELSE s.days IN
  CASE ~InWindow(s) \/ away > 7 -> 0
    [] InWindow(s) /\ away = 0 -> 8
    [] InWindow(s) /\ away = 1 -> 6
    [] InWindow(s) /\ away \in 2..3 -> 4
    [] InWindow(s) /\ away \in 4..7 -> 2

AtMost(n, m) == IF n > m THEN m ELSE n

Points(s) ==
  (IF s.account = "same" THEN 10 ELSE 0) + RefPoints(s) + AmountPoints(s)
    + (IF s.payee THEN 15 ELSE 0) + NamePoints(s) + DatePoints(s)

\* A reference that agrees on an amount that does not is for a person to see.
Score(s) ==
  IF s.ref # "none" /\ ~AmountOk(s) THEN AtMost(Points(s), 60) ELSE AtMost(Points(s), 100)

Confidence(n) == IF n >= 90 THEN "strong" ELSE IF n >= 70 THEN "likely" ELSE "weak"

-----------------------------------------------------------------------------
(* Choosing suggestions *)

\* A pair is <<payment, bank row>>; the scored ones are those worth showing.
Scored(pairs) ==
  {x \in pairs : Candidate(SignalOf[x]) /\ Score(SignalOf[x]) >= MinScore}

\* Two or more of a group within five points of its best.
Rivals(group) ==
  LET best  == CHOOSE n \in {Score(SignalOf[x]) : x \in group} :
                 \A x \in group : Score(SignalOf[x]) <= n
      close == {x \in group : best - Score(SignalOf[x]) <= 5}
  IN IF Cardinality(close) >= 2 THEN close ELSE {}

Ambiguous(scored) ==
  UNION {Rivals({y \in scored : y[1] = x[1]}) : x \in scored}
    \cup UNION {Rivals({y \in scored : y[2] = x[2]}) : x \in scored}

Capped(scored, x) ==
  IF x \in Ambiguous(scored) THEN AtMost(Score(SignalOf[x]), 69) ELSE Score(SignalOf[x])

\* The best PerPayment of each payment; between equals the ids decide.
Suggestions(pairs) ==
  LET scored == Scored(pairs)
      of(T, p) == {x \in T : x[1] = p}
  IN {T \in SUBSET scored : \A p \in Pay :
        /\ Cardinality(of(T, p)) = AtMost(Cardinality(of(scored, p)), PerPayment)
        /\ \A x \in of(T, p), y \in of(scored, p) \ T :
              Capped(scored, x) >= Capped(scored, y)}

-----------------------------------------------------------------------------
VARIABLES
  payStatus,  \* the status of each payment
  pairs,      \* the rows of finance_payment_bank_matches, by pair
  imported,   \* the bank rows imported so far
  runners,    \* where each run of the matching stands
  sample      \* a pair to score, any

matchingVars == <<payStatus, pairs, imported, runners, sample>>

EarlyPay == {"ready_for_bank_match", "bank_match_suggested"}
PayStatus == EarlyPay \cup {"bank_matched", "later"}
NoRun == [step |-> "idle"]

RowsOfMatch(st) == {x \in DOMAIN pairs : pairs[x] = st}
OneConfirmed(x) == \A y \in RowsOfMatch("confirmed") \ {x} : y[1] # x[1] /\ y[2] # x[2]

ReadPayments(q) ==
  /\ runners[q] = NoRun
  /\ runners' = [runners EXCEPT ![q] =
       [step |-> "rows", pays |-> {p \in Pay : payStatus[p] \in EarlyPay},
        rows |-> {}, left |-> {}, chosen |-> {}]]
  /\ UNCHANGED <<payStatus, pairs, imported, sample>>

ReadBankRows(q) ==
  /\ runners[q].step = "rows"
  /\ runners' = [runners EXCEPT ![q].step = "matches", ![q].rows = imported]
  /\ UNCHANGED <<payStatus, pairs, imported, sample>>

\* With the matches of the entity, the suggestions are chosen: none for a pair
\* that has a row, whatever its status, or whose payment or bank row is
\* confirmed.
ReadMatches(q) ==
  /\ runners[q].step = "matches"
  /\ LET done == RowsOfMatch("confirmed")
         free == {x \in runners[q].pays \X runners[q].rows :
                    pairs[x] = "none" /\ \A y \in done : y[1] # x[1] /\ y[2] # x[2]}
     IN \E T \in Suggestions(free) :
          runners' = [runners EXCEPT ![q].left = T, ![q].chosen = T,
                        ![q].step = IF T = {} THEN "mark" ELSE "insert"]
  /\ UNCHANGED <<payStatus, pairs, imported, sample>>

\* Mutant of MayInsertPair: an existing pair is written over.
MayInsertPairAgain(x) == payStatus[x[1]] \in EarlyPay

\* The pair is unique and the payment still early.
MayInsertPair(x) == pairs[x] = "none" /\ payStatus[x[1]] \in EarlyPay

\* A chunk is inserted whole; one pair refused ends the run.
InsertSuggestions(q) ==
  /\ runners[q].step = "insert"
  /\ \E chunk \in SUBSET runners[q].left :
       /\ Cardinality(chunk) = AtMost(Cardinality(runners[q].left), PerInsert)
       /\ IF \A x \in chunk : MayInsertPair(x)
          THEN /\ pairs' = [x \in DOMAIN pairs |->
                              IF x \in chunk THEN "suggested" ELSE pairs[x]]
               /\ runners' = [runners EXCEPT ![q].left = @ \ chunk,
                    ![q].step = IF runners[q].left = chunk THEN "mark" ELSE "insert"]
          ELSE runners' = [runners EXCEPT ![q] = NoRun] /\ UNCHANGED pairs
  /\ UNCHANGED <<payStatus, imported, sample>>

MarkSuggested(q) ==
  /\ runners[q].step = "mark"
  /\ payStatus' = [p \in Pay |->
       IF (\E x \in runners[q].chosen : x[1] = p) /\ payStatus[p] = "ready_for_bank_match"
       THEN "bank_match_suggested" ELSE payStatus[p]]
  /\ runners' = [runners EXCEPT ![q] = NoRun]
  /\ UNCHANGED <<pairs, imported, sample>>

RunDies(q) ==
  /\ runners[q] # NoRun
  /\ runners' = [runners EXCEPT ![q] = NoRun]
  /\ UNCHANGED <<payStatus, pairs, imported, sample>>

-----------------------------------------------------------------------------
(* People, and the statements that are imported meanwhile *)

\* Confirming a suggestion, or matching by hand, and then moving the payment,
\* which is a statement of its own and may not follow.
ConfirmPair(x) ==
  /\ pairs[x] \in {"none", "suggested"} /\ x[2] \in imported
  /\ payStatus[x[1]] \in EarlyPay /\ OneConfirmed(x)
  /\ pairs' = [pairs EXCEPT ![x] = "confirmed"]
  /\ UNCHANGED <<payStatus, imported, runners, sample>>

MoveMatched(p) ==
  /\ payStatus[p] \in EarlyPay /\ \E x \in RowsOfMatch("confirmed") : x[1] = p
  /\ payStatus' = [payStatus EXCEPT ![p] = "bank_matched"]
  /\ UNCHANGED <<pairs, imported, runners, sample>>

\* "Not a match", and unmatching.
RejectPair(x) ==
  /\ \/ pairs[x] = "suggested"
     \/ pairs[x] = "confirmed" /\ payStatus[x[1]] # "later"
  /\ pairs' = [pairs EXCEPT ![x] = "rejected"]
  /\ UNCHANGED <<payStatus, imported, runners, sample>>

ReturnUnmatched(p) ==
  /\ payStatus[p] = "bank_matched"
  /\ payStatus' = [payStatus EXCEPT ![p] = "ready_for_bank_match"]
  /\ UNCHANGED <<pairs, imported, runners, sample>>

Review(p) ==
  /\ payStatus[p] \in {"bank_matched", "later"}
  /\ payStatus[p] = "bank_matched" => \E x \in RowsOfMatch("confirmed") : x[1] = p
  /\ payStatus' = [payStatus EXCEPT ![p] =
                     IF @ = "later" THEN "bank_matched" ELSE "later"]
  /\ UNCHANGED <<pairs, imported, runners, sample>>

ImportDebit(b) ==
  /\ b \notin imported
  /\ imported' = imported \cup {b}
  /\ UNCHANGED <<payStatus, pairs, runners, sample>>

-----------------------------------------------------------------------------
MatchingInit ==
  /\ payStatus = [p \in Pay |-> "ready_for_bank_match"]
  /\ pairs = [x \in Pay \X Debit |-> "none"]
  /\ imported = {}
  /\ runners = [q \in Runner |-> NoRun]

MatchingNext ==
  \/ \E q \in Runner : ReadPayments(q)
  \/ \E q \in Runner : ReadBankRows(q)
  \/ \E q \in Runner : ReadMatches(q)
  \/ \E q \in Runner : InsertSuggestions(q)
  \/ \E q \in Runner : MarkSuggested(q)
  \/ \E q \in Runner : RunDies(q)
  \/ \E x \in Pay \X Debit : ConfirmPair(x)
  \/ \E x \in Pay \X Debit : RejectPair(x)
  \/ \E p \in Pay : MoveMatched(p)
  \/ \E p \in Pay : ReturnUnmatched(p)
  \/ \E p \in Pay : Review(p)
  \/ \E b \in Debit : ImportDebit(b)

MatchingSpec ==
  MatchingInit /\ sample \in Signal /\ [][MatchingNext]_matchingVars

MatchingTypeOK ==
  /\ payStatus \in [Pay -> PayStatus]
  /\ pairs \in [Pay \X Debit -> {"none", "suggested", "confirmed", "rejected"}]
  /\ \A x \in Pay \X Debit : pairs[x] # "none" => x[2] \in imported
  /\ \A p \in Pay : payStatus[p] = "bank_match_suggested" =>
        \E x \in Pay \X Debit : x[1] = p /\ pairs[x] # "none"

\* A pair somebody decided is never suggested again, by a run that read the
\* matches before the decision either.
DecidedPairStays ==
  [][\A x \in Pay \X Debit :
        /\ pairs[x] = "rejected" => pairs'[x] = "rejected"
        /\ pairs[x] = "confirmed" => pairs'[x] \in {"confirmed", "rejected"}]_matchingVars

\* No pair is called likely on its amount and date alone, or against its
\* amount, and none strong without its bank reference.
LikelyHasGrounds ==
  Candidate(sample) =>
    /\ Confidence(Score(sample)) # "weak" =>
          AmountOk(sample) /\ (sample.ref # "none" \/ sample.payee \/ sample.name # "none")
    /\ Confidence(Score(sample)) = "strong" => sample.ref # "none"
=============================================================================
