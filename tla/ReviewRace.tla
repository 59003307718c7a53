----------------------------- MODULE ReviewRace -----------------------------
(***************************************************************************)
(* Two reviewers at the same payment.  The payment trigger of migration    *)
(* 0024 looks at the matches, the match trigger looks at the payment's     *)
(* status, and neither locks what it looks at.  PostgreSQL runs a          *)
(* statement at READ COMMITTED: the row it updates is locked from before   *)
(* the trigger until the commit, rows of another table are read as they    *)
(* were committed when the trigger asked.  So a statement is two steps     *)
(* here, decide and commit, and statements on different rows overlap.      *)
(*                                                                         *)
(* Documents and the bank-match-not-applicable decision are left out: the  *)
(* documents are complete, the decision is never taken, and bank evidence  *)
(* is the confirmed match.  "early" stands for the four early statuses.    *)
(***************************************************************************)

CONSTANTS Payment, BankRow, Session

VARIABLES
  status,  \* committed status of each payment
  match,   \* committed status of the match of a payment and a bank row
  txn      \* the statement a session has decided on and not yet committed

vars == <<status, match, txn>>

Idle == [on |-> "nothing"]

HasConfirmed(p) == \E b \in BankRow : match[p][b] = "confirmed"

LockedPayment(p) ==
  \E s \in Session : txn[s].on = "payment" /\ txn[s].p = p

LockedMatch(p, b) ==
  \E s \in Session : txn[s].on = "match" /\ txn[s].p = p /\ txn[s].b = b

Init ==
  /\ status = [p \in Payment |-> "early"]
  /\ match = [p \in Payment |-> [b \in BankRow |-> "none"]]
  /\ txn = [s \in Session |-> Idle]

\* The transitions of enforce_finance_payment_rules around finance review.
PaymentMove(p, to) ==
  \/ status[p] = "early" /\ to = "bank_matched" /\ HasConfirmed(p)
  \/ status[p] = "bank_matched" /\ to = "early" /\ ~HasConfirmed(p)
  \/ status[p] = "bank_matched" /\ to = "finance_review" /\ HasConfirmed(p)
  \/ status[p] = "finance_review" /\ to = "bank_matched" /\ HasConfirmed(p)
  \/ status[p] = "finance_review" /\ to = "early" /\ ~HasConfirmed(p)
  \/ status[p] = "finance_review" /\ to = "ready_for_sql" /\ HasConfirmed(p)
  \/ status[p] = "ready_for_sql" /\ to = "finance_review"

\* The transitions of enforce_finance_bank_match_rules.
MatchMove(p, b, to) ==
  \/ /\ match[p][b] = "none" /\ to \in {"suggested", "confirmed"}
     /\ status[p] = "early"
  \/ match[p][b] = "suggested" /\ to = "confirmed" /\ status[p] = "early"
  \/ match[p][b] = "suggested" /\ to = "rejected"
  \/ /\ match[p][b] = "confirmed" /\ to = "rejected"
     /\ status[p] \in {"early", "bank_matched"}
  \/ match[p][b] = "rejected" /\ to = "suggested"

DecidePayment(s, p, to) ==
  /\ txn[s] = Idle
  /\ ~LockedPayment(p)
  /\ PaymentMove(p, to)
  /\ txn' = [txn EXCEPT ![s] = [on |-> "payment", p |-> p, to |-> to]]
  /\ UNCHANGED <<status, match>>

DecideMatch(s, p, b, to) ==
  /\ txn[s] = Idle
  /\ ~LockedMatch(p, b)
  /\ MatchMove(p, b, to)
  /\ txn' = [txn EXCEPT ![s] = [on |-> "match", p |-> p, b |-> b, to |-> to]]
  /\ UNCHANGED <<status, match>>

CommitPayment(s) ==
  /\ txn[s].on = "payment"
  /\ status' = [status EXCEPT ![txn[s].p] = txn[s].to]
  /\ txn' = [txn EXCEPT ![s] = Idle]
  /\ UNCHANGED match

\* The two partial unique indexes on confirmed matches.
NoOtherConfirmed(p, b) ==
  /\ \A c \in BankRow \ {b} : match[p][c] # "confirmed"
  /\ \A q \in Payment \ {p} : match[q][b] # "confirmed"

CommitMatch(s) ==
  /\ txn[s].on = "match"
  /\ txn[s].to = "confirmed" => NoOtherConfirmed(txn[s].p, txn[s].b)
  /\ match' = [match EXCEPT ![txn[s].p][txn[s].b] = txn[s].to]
  /\ txn' = [txn EXCEPT ![s] = Idle]
  /\ UNCHANGED status

\* An index refuses the statement, or the connection is lost.
Abort(s) ==
  /\ txn[s] # Idle
  /\ txn' = [txn EXCEPT ![s] = Idle]
  /\ UNCHANGED <<status, match>>

Next ==
  \E s \in Session :
     \/ \E p \in Payment :
          \/ \E to \in {"early", "bank_matched", "finance_review",
                        "ready_for_sql"} : DecidePayment(s, p, to)
          \/ \E b \in BankRow, to \in {"suggested", "confirmed", "rejected"} :
               DecideMatch(s, p, b, to)
     \/ CommitPayment(s) \/ CommitMatch(s) \/ Abort(s)

Spec == Init /\ [][Next]_vars

-----------------------------------------------------------------------------

\* "finance_review and ready_for_sql need (a confirmed match or 'bank match
\* not applicable')" (section 7 of the payment handover): a payment that is in
\* finance review or ready for SQL has a confirmed match.
ReviewNeedsMatch ==
  \A p \in Payment :
     status[p] \in {"finance_review", "ready_for_sql"} => HasConfirmed(p)
=============================================================================
