------------------------------- MODULE Claims -------------------------------
(***************************************************************************)
(* One staff or director claim: the row of claims, its lines and its       *)
(* advance, the status route and the save route that work on it, and the   *)
(* database's trigger and policies on it.                                  *)
(*                                                                         *)
(* Every call a route makes to the database is a step of its own: a status *)
(* request decides on the row it READ and updates the row by id alone, and *)
(* a save writes the header, then the lines one statement at a time, then  *)
(* the advances, stopping where a statement is refused.  The totals of the *)
(* claim are recalculated by a trigger inside the statement that changes a *)
(* line, so they are an operator of the state here.                        *)
(*                                                                         *)
(* Abstracted: the people are fixed and all have access to the entity of   *)
(* the claim; the claim is not of a confidential type; texts, dates and    *)
(* the history, review and audit rows, whose inserts nothing reads.        *)
(***************************************************************************)
EXTENDS Integers, FiniteSets, Permissions

CONSTANTS
  User,       \* people with an account
  PersonOf,   \* what each of them may do: [User -> Person]
  NoOne,      \* the null of claimant_user_id, checked_by, approved_by
  Line,       \* rows of claim_lines of this claim
  MaxAmount,  \* bound on the amount of a line
  MaxAdvance  \* bound on the amount of the advance

ASSUME ClaimsAssumption ==
  /\ NoOne \notin User
  /\ PersonOf \in [User -> Person]
  /\ IsFiniteSet(Line)
  /\ MaxAmount \in Nat /\ MaxAdvance \in Nat

VARIABLES
  claim,    \* the row of claims
  lines,    \* the amount of each row of claim_lines, 0 where there is no row
  advance,  \* the amount advanced to the claimant
  moves,    \* status requests between their read and their update
  saves     \* save requests between their header and their last statement

claimVars == <<claim, lines, advance, moves, saves>>

ClaimStatus ==
  {"draft", "submitted", "under_review", "more_information_required",
   "checked", "approved", "payment_prepared", "reimbursed",
   "entered_in_sql_accounting", "rejected", "archived"}

Allowed ==
  [s \in ClaimStatus |->
     CASE s = "draft"                     -> {"submitted", "archived"}
       [] s = "submitted"                 -> {"under_review", "rejected",
                                              "more_information_required"}
       [] s = "under_review"              -> {"checked", "rejected",
                                              "more_information_required"}
       [] s = "more_information_required" -> {"submitted", "archived"}
       [] s = "checked"                   -> {"approved", "rejected"}
       [] s = "approved"                  -> {"payment_prepared", "archived"}
       [] s = "payment_prepared"          -> {"reimbursed"}
       [] s = "reimbursed"                -> {"entered_in_sql_accounting"}
       [] s = "entered_in_sql_accounting" -> {"archived"}
       [] s = "rejected"                  -> {"archived"}
       [] s = "archived"                  -> {}]

Claimant == User \cup {NoOne}

ClaimRow == [status : ClaimStatus, claimant : Claimant, checkedBy : Claimant,
             approvedBy : Claimant, numbered : BOOLEAN]

\* gross_claim_total and net_payable_amount, as recalculate_claim_totals sets
\* them in the statement that changed a line or an advance.  The sum of the
\* lines is counted unit by unit.
Gross == Cardinality({u \in Line \X (1..MaxAmount) : u[2] <= lines[u[1]]})
\* Mutant of Net: the advance counts towards the claimant.
NetAdded == Gross + advance

Net   == IF Gross > advance THEN Gross - advance ELSE 0

\* user_can_access_claim, for a claim that is not confidential.
Sees(u) == claim.claimant = u \/ Can(PersonOf[u], "can_view_finance")

\* The update policy of claims.
MayUpdate(u) ==
  /\ Sees(u)
  /\ \E p \in {"can_manage_claims", "can_review_claims", "can_approve_claims"} :
        Can(PersonOf[u], p)

NeedsAal2 == {"checked", "approved", "rejected", "payment_prepared",
              "reimbursed", "entered_in_sql_accounting", "archived"}
Settlement == {"payment_prepared", "reimbursed", "entered_in_sql_accounting",
               "archived"}

\* What the trigger asks of the person when the status changes.
MayEnter(p, s) ==
  /\ s \in NeedsAal2 => p.aal2
  /\ p.role = "data_entry" => s = "draft"
  /\ s = "approved" => Can(p, "can_approve_claims")
  /\ s \in Settlement =>
        \/ RunsFinance(p)
        \/ s = "payment_prepared" /\ Can(p, "can_prepare_claim_reimbursements")

\* The trigger's two rules on every insert and update.
Independent(row) ==
  row.claimant # NoOne => row.claimant \notin {row.checkedBy, row.approvedBy}

\* What the trigger leaves a person of the role management: the status and
\* the approval.
ManagementMay == {"under_review", "more_information_required", "approved",
                  "rejected", "archived"}

-----------------------------------------------------------------------------
(* The status route *)

Move == [user : User, next : ClaimStatus, step : {"number", "update"}]

\* The route reads the claim and decides on what it read.
ReadForMove(u, next) ==
  /\ Sees(u)
  /\ next \in Allowed[claim.status]
  /\ next \in {"checked", "approved"} => claim.claimant # u
  /\ moves' = moves \cup
       {[user |-> u, next |-> next,
         step |-> IF next = "submitted" THEN "number" ELSE "update"]}
  /\ UNCHANGED <<claim, lines, advance, saves>>

\* A submission numbers the claim first, in a call of its own.
NumberClaim(m) ==
  /\ m \in moves /\ m.step = "number"
  /\ IF Can(PersonOf[m.user], "can_manage_claims")
     THEN /\ claim' = [claim EXCEPT !.numbered = TRUE]
          /\ moves' = (moves \ {m}) \cup {[m EXCEPT !.step = "update"]}
     ELSE moves' = moves \ {m} /\ UNCHANGED claim
  /\ UNCHANGED <<lines, advance, saves>>

\* The row as the update of a request leaves it.
Moved(m) ==
  [claim EXCEPT !.status     = m.next,
                !.checkedBy  = IF m.next = "checked" THEN m.user ELSE @,
                !.approvedBy = IF m.next = "approved" THEN m.user ELSE @]

\* Mutant of MayMove: the trigger without the rule of the two persons.
MayMoveOwn(m) ==
  /\ MayUpdate(m.user)
  /\ m.next # claim.status => MayEnter(PersonOf[m.user], m.next)
  /\ PersonOf[m.user].role = "management" => m.next \in ManagementMay

\* What the policy and the trigger accept of a request's update.
MayMove(m) ==
  /\ MayUpdate(m.user)
  /\ Independent(Moved(m))
  /\ m.next # claim.status => MayEnter(PersonOf[m.user], m.next)
  /\ PersonOf[m.user].role = "management" => m.next \in ManagementMay

\* The update is by id alone: the status it replaces need not be the one read.
UpdateStatus(m) ==
  /\ m \in moves /\ m.step = "update"
  /\ claim' = IF MayMove(m) THEN Moved(m) ELSE claim
  /\ moves' = moves \ {m}
  /\ UNCHANGED <<lines, advance, saves>>

-----------------------------------------------------------------------------
(* The save route *)

\* The lines of a form that passed validation: the rows to remove are 0, a row
\* the form does not know is not there.
FormLines == UNION {[S -> 0..MaxAmount] : S \in SUBSET Line}

Save == [user : User, form : FormLines, advance : 0..MaxAdvance,
         step : {"delete", "lines", "advance"}]

\* Mutant of MayWriteDetail: the policies before the draft rule.
MayWriteAnyDetail(u) == Sees(u) /\ Can(PersonOf[u], "can_manage_claims")

\* Lines and advances are written only while the claim is a draft.
MayWriteDetail(u) ==
  /\ claim.status = "draft" /\ Sees(u)
  /\ Can(PersonOf[u], "can_manage_claims")

\* The header is updated whatever the status; the claimant is part of it.
SaveHeader(u, c, form, adv) ==
  /\ \E l \in DOMAIN form : form[l] > 0
  /\ MayUpdate(u) /\ PersonOf[u].role # "management"
  /\ Independent([claim EXCEPT !.claimant = c])
  /\ claim' = [claim EXCEPT !.claimant = c]
  /\ saves' = saves \cup
       {[user |-> u, form |-> form, advance |-> adv, step |-> "delete"]}
  /\ UNCHANGED <<lines, advance, moves>>

\* The rows to remove go in one statement, which a policy leaves without
\* effect and without an error.
SaveDeletes(s) ==
  /\ s \in saves /\ s.step = "delete"
  /\ LET gone == {l \in DOMAIN s.form : s.form[l] = 0}
         kept == DOMAIN s.form \ gone
     IN /\ lines' = IF MayWriteDetail(s.user)
                    THEN [l \in Line |-> IF l \in gone THEN 0 ELSE lines[l]]
                    ELSE lines
        /\ saves' = (saves \ {s}) \cup
             {[s EXCEPT !.form = [l \in kept |-> s.form[l]], !.step = "lines"]}
  /\ UNCHANGED <<claim, advance, moves>>

\* One line: an update of its row, or an insert.  A refusal ends the request
\* with the lines before it written; so does the update of a row another save
\* removed.
SaveLine(s, l) ==
  /\ s \in saves /\ s.step = "lines" /\ l \in DOMAIN s.form
  /\ LET rest == DOMAIN s.form \ {l}
         next == [s EXCEPT !.form = [k \in rest |-> s.form[k]],
                           !.step = IF rest = {} THEN "advance" ELSE "lines"]
     IN \/ /\ MayWriteDetail(s.user)
           /\ lines' = [lines EXCEPT ![l] = s.form[l]]
           /\ saves' = (saves \ {s}) \cup {next}
        \/ /\ MayWriteDetail(s.user) => lines[l] = 0
           /\ saves' = saves \ {s}
           /\ UNCHANGED lines
  /\ UNCHANGED <<claim, advance, moves>>

\* The advances, and the totals once more.
SaveAdvance(s) ==
  /\ s \in saves /\ s.step = "advance"
  /\ advance' = IF MayWriteDetail(s.user) THEN s.advance ELSE advance
  /\ saves' = saves \ {s}
  /\ UNCHANGED <<claim, lines, moves>>

-----------------------------------------------------------------------------
ClaimsInit ==
  /\ claim = [status |-> "draft", claimant |-> NoOne, checkedBy |-> NoOne,
              approvedBy |-> NoOne, numbered |-> FALSE]
  /\ lines = [l \in Line |-> 0]
  /\ advance = 0
  /\ moves = {} /\ saves = {}

ClaimsNext ==
  \/ \E u \in User, next \in ClaimStatus : ReadForMove(u, next)
  \/ \E m \in moves : NumberClaim(m) \/ UpdateStatus(m)
  \/ \E u \in User, c \in Claimant, form \in FormLines, adv \in 0..MaxAdvance :
        SaveHeader(u, c, form, adv)
  \/ \E s \in saves : SaveDeletes(s) \/ SaveAdvance(s)
  \/ \E s \in saves, l \in Line : SaveLine(s, l)

-----------------------------------------------------------------------------
\* Nobody has checked or approved a claim of which they are the claimant, in
\* whatever order requests, approvals and changes of the claimant reach the
\* row.
NobodySignsTheirOwnClaim ==
  claim.claimant # NoOne => claim.claimant \notin {claim.checkedBy, claim.approvedBy}
=============================================================================
