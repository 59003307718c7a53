--------------------------- MODULE MCDisbursement ---------------------------
(***************************************************************************)
(* Disbursement and the staff logins on small sets, for TLC.  A behaviour  *)
(* is of one of three parts, so that the requests open at the same time do *)
(* not multiply: the claim with two requests open and its reimbursement,   *)
(* every operation of Disbursement with one request open and no advance, a *)
(* claim being saved before there are vouchers, or the staff logins, which *)
(* share nothing with the others.                                          *)
(***************************************************************************)
EXTENDS Disbursement, StaffAccess, TLC

CONSTANTS
  staff, manager, director,
  Parts   \* the parts this run explores: a subset of {"claim", "all", "logins"}

VARIABLE part

MCPersonOf ==
  [u \in User |->
     CASE u = staff    -> [role |-> "finance_staff", aal2 |-> TRUE, granted |-> {}]
       [] u = manager  -> [role |-> "finance_manager", aal2 |-> TRUE, granted |-> {}]
       [] u = director -> [role |-> "management", aal2 |-> TRUE,
                           granted |-> {"can_approve_claims"}]]

\* The requests that have made a call and have not made their last one.
Open == Cardinality(moves) + Cardinality(saves) + Cardinality(generates)
MaxOpen == [p \in {"claim", "all"} |-> IF p = "claim" THEN 2 ELSE 1]

Reimbursement ==
  \E u \in User, v \in Voucher : PrepareClaimVoucher(u, v) \/ DeleteVoucher(u, v)

\* Two roles; a second page only beside a login already created, and with the
\* second factor and an active login.
LoginStep ==
  /\ StaffNext
  /\ \A q \in CreateCall : LET c == creations'[q] IN c.step # "none" =>
        /\ c.role = "finance_staff"
        /\ Cardinality({w \in StaffPage : pages'[w].step # "closed"}) = 2 =>
             c.step = "created" /\ c.entities # {} /\ c.ticks # FirstTicks
  /\ \A w \in StaffPage : pages'[w].step # "closed" =>
        /\ pages'[w].role \in {"finance_staff", "management", "owner", "read_only"}
        /\ (\E v \in StaffPage \ {w} : pages'[v].step # "closed") =>
             pages'[w].aal2 /\ pages'[w].active

\* Saves beside vouchers are a matter of the part "claim".
SavesFirst ==
  /\ \A s \in saves' : s.advance = 0
  /\ (\E v \in Voucher : Live(v)) => saves' \subseteq saves

DisbursementStep ==
  /\ UNCHANGED part
  /\ \/ part = "claim" /\ (ClaimStep \/ Reimbursement)
     \/ part = "all" /\ DisbursementNext /\ SavesFirst
     \/ part = "logins" /\ LoginStep
  /\ IF part = "logins" THEN UNCHANGED vars
     ELSE Open' <= MaxOpen[part] /\ UNCHANGED staffVars

MCInit == part \in Parts /\ DisbursementInit /\ StaffInit
MCSpec == MCInit /\ [][DisbursementStep]_<<part, vars, staffVars>>

\* Every component's variables are of their types.
EveryTypeOK == DisbursementTypeOK /\ StaffTypeOK

VoucherSymmetry == Permutations(Voucher)
=============================================================================
