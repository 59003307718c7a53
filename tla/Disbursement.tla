---------------------------- MODULE Disbursement ----------------------------
(***************************************************************************)
(* From an approved claim, or a verified bill, to a payment voucher: the   *)
(* voucher routes, the voucher form of the finance workspace and the       *)
(* database functions behind them, composed with the life of the claim.    *)
(* One verified bill stands for the supplier bills.                        *)
(*                                                                         *)
(* A voucher's items are represented by the sum of their amounts and by    *)
(* whether one of them refers to the bill.  A voucher has no item exactly  *)
(* when that sum is 0: the form drops an item without an amount.  No route *)
(* ever marks a voucher paid.                                              *)
(***************************************************************************)
EXTENDS Claims

CONSTANTS
  Voucher,      \* ids a row of payment_vouchers may get
  NoVoucher,    \* the null of claims.payment_voucher_id
  BillAmount,   \* outstanding_amount of the bill
  FormTotal     \* item totals a person may type

ASSUME DisbursementAssumption ==
  /\ NoVoucher \notin Voucher
  /\ BillAmount \in Nat \ {0}
  /\ FormTotal \subseteq Nat \ {0}

VARIABLES
  vouchers,   \* the rows of payment_vouchers
  paidBy,     \* claims.payment_voucher_id
  generates   \* generate requests between two of their calls

vars == <<claimVars, vouchers, paidBy, generates>>

VoucherRow ==
  [status : {"none", "draft", "issued", "cancelled"},
   source : {"claim", "other"},
   total : Nat, items : Nat, bill : BOOLEAN]
NoRow == [status |-> "none", source |-> "other", total |-> 0, items |-> 0,
          bill |-> FALSE]

Live(v) == vouchers[v].status # "none"

DisbursementTypeOK ==
  /\ claim \in ClaimRow
  /\ lines \in [Line -> 0..MaxAmount]
  /\ advance \in 0..MaxAdvance
  /\ Net \in 0..Gross
  /\ moves \subseteq Move
  /\ saves \subseteq Save
  /\ vouchers \in [Voucher -> VoucherRow]
  /\ paidBy \in Voucher \cup {NoVoucher}
  /\ generates \subseteq
       [user : User, voucher : Voucher \cup {NoVoucher},
        step : {"voucher", "item"}]

-----------------------------------------------------------------------------
(* The reimbursement of the claim *)

\* Mutant of MayPrepare: the function before it looked for a voucher.
MayPrepareAgain(u) ==
  /\ CanHighRisk(PersonOf[u], "can_prepare_claim_reimbursements") /\ Sees(u)
  /\ claim.status = "approved" /\ Net > 0

\* Mutant of MayPrepare: the status of the claim is not looked at.
MayPrepareAny(u) ==
  /\ CanHighRisk(PersonOf[u], "can_prepare_claim_reimbursements") /\ Sees(u)
  /\ paidBy = NoVoucher /\ Net > 0

MayPrepare(u) ==
  /\ CanHighRisk(PersonOf[u], "can_prepare_claim_reimbursements") /\ Sees(u)
  /\ claim.status = "approved" /\ paidBy = NoVoucher /\ Net > 0

\* The claim's row is locked: voucher, items, link and status are one step.
\* The voucher is for the net amount, its items are the lines.
PrepareClaimVoucher(u, v) ==
  /\ ~Live(v)
  /\ MayPrepare(u)
  /\ LET row == [claim EXCEPT !.status = "payment_prepared"]
     IN Independent(row) /\ MayEnter(PersonOf[u], row.status) /\ claim' = row
  /\ vouchers' = [vouchers EXCEPT ![v] =
       [status |-> "draft", source |-> "claim", total |-> Net,
        items |-> Gross, bill |-> FALSE]]
  /\ paidBy' = v
  /\ UNCHANGED <<lines, advance, moves, saves, generates>>

-----------------------------------------------------------------------------
(* The voucher form *)

\* The form's payload: its total is the total of its items.
FormVoucher(old, total, bill) ==
  [old EXCEPT !.status = "draft", !.total = total, !.items = total,
              !.bill = bill]

\* A new voucher, typed or copied from the bill.
CreateVoucher(u, v, total) ==
  /\ ~Live(v)
  /\ CanHighRisk(PersonOf[u], "can_prepare_vouchers")
  /\ \E bill \in BOOLEAN :
        vouchers' = [vouchers EXCEPT ![v] = FormVoucher(NoRow, total, bill)]
  /\ UNCHANGED <<claimVars, paidBy, generates>>

\* A draft opened in the form is saved with other items, or as it was; its
\* source and its link to a claim stay, its total becomes that of the items.
EditVoucher(u, v, total) ==
  /\ vouchers[v].status = "draft" /\ total > 0
  /\ CanHighRisk(PersonOf[u], "can_prepare_vouchers")
  /\ vouchers' = [vouchers EXCEPT ![v] = FormVoucher(@, total, @.bill)]
  /\ UNCHANGED <<claimVars, paidBy, generates>>

MayIssue(u, v) ==
  /\ CanHighRisk(PersonOf[u], "can_issue_vouchers")
  /\ vouchers[v].status = "draft" /\ vouchers[v].items > 0

IssueVoucher(u, v) ==
  /\ MayIssue(u, v)
  /\ vouchers' = [vouchers EXCEPT ![v].status = "issued"]
  /\ UNCHANGED <<claimVars, paidBy, generates>>

\* Deleting a draft nulls the claim's link to it; the claim stays where it is.
DeleteVoucher(u, v) ==
  /\ vouchers[v].status = "draft"
  /\ CanHighRisk(PersonOf[u], "can_delete_drafts")
  /\ vouchers' = [vouchers EXCEPT ![v] = NoRow]
  /\ paidBy' = IF paidBy = v THEN NoVoucher ELSE paidBy
  /\ UNCHANGED <<claimVars, generates>>

\* The update leaves drafts alone, so the status read before it cannot
\* mislead the route.
VoidVoucher(u, v) ==
  /\ vouchers[v].status = "issued"
  /\ CanHighRisk(PersonOf[u], "can_void_vouchers") /\ RunsFinance(PersonOf[u])
  /\ vouchers' = [vouchers EXCEPT ![v].status = "cancelled"]
  /\ UNCHANGED <<claimVars, paidBy, generates>>

-----------------------------------------------------------------------------
(* A voucher generated for the bill: three calls *)

\* The bill is read, then the items that refer to it.
StartGenerate(u) ==
  /\ ~\E v \in Voucher : Live(v) /\ vouchers[v].bill
  /\ generates' = generates \cup
       {[user |-> u, voucher |-> NoVoucher, step |-> "voucher"]}
  /\ UNCHANGED <<claimVars, vouchers, paidBy>>

InsertVoucher(g, v) ==
  /\ g \in generates /\ g.step = "voucher"
  /\ IF CanHighRisk(PersonOf[g.user], "can_prepare_vouchers")
     THEN /\ ~Live(v)
          /\ vouchers' = [vouchers EXCEPT ![v] =
               [status |-> "draft", source |-> "other",
                total |-> BillAmount, items |-> 0, bill |-> FALSE]]
          /\ generates' = (generates \ {g}) \cup
               {[g EXCEPT !.voucher = v, !.step = "item"]}
     ELSE generates' = generates \ {g} /\ UNCHANGED vouchers
  /\ UNCHANGED <<claimVars, paidBy>>

\* Mutant of MayInsertItem: the item policy without the status.
MayInsertItemAnyStatus(v) == Live(v)

\* The policy of payment_voucher_items: only under a draft.
MayInsertItem(v) == vouchers[v].status = "draft"

\* Refused, the item leaves the voucher without it.
InsertItem(g) ==
  /\ g \in generates /\ g.step = "item"
  /\ vouchers' = IF MayInsertItem(g.voucher)
                 THEN [vouchers EXCEPT ![g.voucher].items = @ + BillAmount,
                                       ![g.voucher].bill = TRUE]
                 ELSE vouchers
  /\ generates' = generates \ {g}
  /\ UNCHANGED <<claimVars, paidBy>>

-----------------------------------------------------------------------------
DisbursementInit ==
  /\ ClaimsInit
  /\ vouchers = [v \in Voucher |-> NoRow]
  /\ paidBy = NoVoucher
  /\ generates = {}

ClaimStep == ClaimsNext /\ UNCHANGED <<vouchers, paidBy, generates>>

VoucherStep ==
  \/ \E u \in User, v \in Voucher : PrepareClaimVoucher(u, v)
  \/ \E u \in User, v \in Voucher, t \in FormTotal : CreateVoucher(u, v, t)
  \/ \E u \in User, v \in Voucher :
        \E t \in FormTotal \cup {vouchers[v].items} : EditVoucher(u, v, t)
  \/ \E u \in User, v \in Voucher : IssueVoucher(u, v)
  \/ \E u \in User, v \in Voucher : DeleteVoucher(u, v)
  \/ \E u \in User, v \in Voucher : VoidVoucher(u, v)
  \/ \E u \in User : StartGenerate(u)
  \/ \E g \in generates, v \in Voucher : InsertVoucher(g, v)
  \/ \E g \in generates : InsertItem(g)

DisbursementNext == ClaimStep \/ VoucherStep

DisbursementSpec == DisbursementInit /\ [][DisbursementNext]_vars

-----------------------------------------------------------------------------
\* A voucher made from the claim exists only as the voucher the claim names:
\* deleting one and preparing again, stale requests and edits of drafts never
\* leave two vouchers for one claim.
ClaimHasOneVoucher ==
  \A v \in Voucher : Live(v) /\ vouchers[v].source = "claim" => paidBy = v

\* Money leaves for a claim only after somebody else signed it: while a
\* voucher of the claim exists an approver is recorded, who is not the
\* claimant, however the claim has moved since.
VoucheredClaimIsSigned ==
  paidBy # NoVoucher => claim.approvedBy \notin {NoOne, claim.claimant}

\* A claim that has left draft never becomes one again, and its net amount
\* never changes, even by a save that started before it was submitted.
SubmittedAmountIsFinal ==
  [][claim.status # "draft" => claim'.status # "draft" /\ Net' = Net]_vars

\* An issued voucher keeps its total and its items and can only be cancelled;
\* in particular the item of a generate request that comes after someone
\* completed and issued the draft is refused.
IssuedVoucherIsFinal ==
  [][\A v \in Voucher : vouchers[v].status \in {"issued", "cancelled"} =>
        vouchers'[v] \in {vouchers[v], [vouchers[v] EXCEPT !.status = "cancelled"]}]_vars

\* Nothing is issued without items: a generate request that stopped between
\* its two inserts leaves a draft that cannot be issued as it is.
IssuedHasItems ==
  \A v \in Voucher : vouchers[v].status = "issued" => vouchers[v].items > 0
=============================================================================
