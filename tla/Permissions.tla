---------------------------- MODULE Permissions ----------------------------
(***************************************************************************)
(* What a signed-in person may do, as the database decides it              *)
(* (app_private.current_user_can): by the role of the active profile, by   *)
(* the permissions granted to that person alone, and by the assurance      *)
(* level of the session.  A person here is a record [role, aal2, granted]. *)
(* Only the permissions the modelled operations ask for are named.         *)
(***************************************************************************)

FinanceRole == {"owner", "finance_manager", "finance_staff", "management",
                "data_entry"}

ClaimPermission ==
  {"can_manage_claims", "can_review_claims", "can_approve_claims",
   "can_prepare_claim_reimbursements"}
VoucherPermission ==
  {"can_prepare_vouchers", "can_issue_vouchers", "can_void_vouchers",
   "can_delete_drafts", "can_view_sensitive_payments"}
DocumentPermission ==
  {"can_view_documents", "can_upload_documents", "can_manage_documents",
   "can_delete_documents"}
FinancePermission ==
  {"can_view_finance", "can_manage_bills", "can_manage_recurring_bills",
   "can_view_bank_balances"}
  \cup ClaimPermission \cup VoucherPermission \cup DocumentPermission
StudentPermission == {"can_manage_students", "can_manage_enrolments"}

Permission == FinancePermission \cup StudentPermission

Person == [role : FinanceRole \cup {"branch_manager", "read_only"},
           aal2 : BOOLEAN, granted : SUBSET Permission]

\* Refused to a session that has not passed the second factor.
HighRisk ==
  {"can_view_bank_balances", "can_approve_claims",
   "can_prepare_claim_reimbursements", "can_delete_documents"}
  \cup VoucherPermission

IsOwner(p)   == p.role = "owner"
IsManager(p) == p.role = "finance_manager"
RunsFinance(p) == IsOwner(p) \/ IsManager(p)

\* What an explicit grant can add for a role, at most.
GrantScope(role) ==
  CASE role = "management" ->
         {"can_view_finance", "can_view_documents", "can_review_claims",
          "can_approve_claims"}
    [] role = "data_entry" ->
         {"can_view_finance", "can_view_documents", "can_upload_documents",
          "can_manage_bills", "can_manage_claims"}
    [] role = "finance_staff" ->
         FinancePermission \ {"can_approve_claims", "can_issue_vouchers",
            "can_void_vouchers", "can_delete_drafts", "can_delete_documents",
            "can_view_bank_balances"}
    [] role = "finance_manager" -> FinancePermission
    [] OTHER -> {}

\* What a role may do with no grant.
DefaultScope(role) ==
  CASE role = "finance_manager" -> FinancePermission \ {"can_view_bank_balances"}
    [] role = "finance_staff" ->
         {"can_view_finance", "can_view_documents", "can_upload_documents",
          "can_manage_documents", "can_manage_bills", "can_prepare_vouchers",
          "can_manage_claims", "can_review_claims",
          "can_prepare_claim_reimbursements", "can_view_sensitive_payments"}
    [] role = "management" ->
         {"can_view_finance", "can_view_documents", "can_review_claims"}
    [] role = "data_entry" ->
         {"can_view_finance", "can_view_documents", "can_upload_documents",
          "can_manage_bills", "can_manage_claims"}
    [] OTHER -> {}

\* Reading and uploading documents go by the role alone, grants and the scopes
\* above aside; the other documents' permission is a branch manager's besides.
ByRoleAlone == {"can_view_documents", "can_upload_documents"}
DocumentScope(role) ==
  CASE role \in {"finance_manager", "finance_staff", "data_entry"} -> ByRoleAlone
    [] role = "branch_manager" -> ByRoleAlone \cup {"can_manage_documents"}
    [] role = "read_only" -> {"can_view_documents"}
    [] OTHER -> {}

Can(p, permission) ==
  /\ permission \in HighRisk => p.aal2
  /\ \/ IsOwner(p)
     \/ permission \in StudentPermission \cap p.granted
     \/ permission \in DocumentScope(p.role)
     \/ /\ p.role \in FinanceRole /\ permission \notin ByRoleAlone
        /\ \/ permission \in p.granted \cap GrantScope(p.role)
           \/ permission \notin p.granted /\ permission \in DefaultScope(p.role)

CanHighRisk(p, permission) == p.aal2 /\ Can(p, permission)
=============================================================================
