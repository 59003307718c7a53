---------------------------- MODULE StaffAccess ----------------------------
(***************************************************************************)
(* The staff logins of the Owner's settings: the call that creates one and *)
(* takes it back when a later write fails, and the page that edits one in  *)
(* four writes of its own.  A login is known here by its email; deleting   *)
(* it deletes its profile, permissions and entity access with it.  The     *)
(* writes go through row-level security, which lets an owner's session     *)
(* that has not passed the second factor change no row: an update then     *)
(* changes nothing and reports no error, an insert fails.                  *)
(*                                                                         *)
(* Permissions are the set of the ticked ones.  Roles are made "owner"     *)
(* outside the application only.                                           *)
(***************************************************************************)
EXTENDS Permissions

CONSTANTS
  Login,        \* emails
  OwnerLogin,   \* those of the owners
  NoLogin,
  StaffEntity,  \* active entities
  CreateCall,   \* creations that may be in progress
  StaffPage,    \* open settings pages
  Ticked        \* the permissions somebody may tick or untick

ASSUME StaffAssumption ==
  /\ OwnerLogin \subseteq Login /\ NoLogin \notin Login /\ Ticked \subseteq FinancePermission

StaffRole == FinanceRole \ {"owner"}
ProfileRole == FinanceRole \cup {"read_only"}

\* The ticks the page sets when a role is chosen; never the bank balances.
RoleDefaults(role) ==
  LET leads == role = "finance_manager"
      keeps == leads \/ role = "finance_staff"
      ticked == [p \in FinancePermission |->
        CASE p \in {"can_view_documents", "can_view_finance"} -> TRUE
          [] p \in {"can_upload_documents", "can_manage_bills", "can_manage_claims"} ->
               keeps \/ role = "data_entry"
          [] p \in {"can_manage_documents", "can_prepare_vouchers", "can_view_sensitive_payments"} ->
               keeps
          [] p = "can_review_claims" -> keeps \/ role = "management"
          [] p \in {"can_view_bank_balances", "can_prepare_claim_reimbursements"} -> FALSE
          [] OTHER -> leads]
  IN {p \in FinancePermission : ticked[p]}
\* What the form starts with, for the role finance_staff it starts with.
FirstTicks == {"can_view_documents", "can_upload_documents", "can_view_finance"}
TicksFor(role) ==
  {RoleDefaults(role)} \cup (IF role = "finance_staff" THEN {FirstTicks} ELSE {})

\* The entity rows written for a login: one for each entity, all alike.
AccessRows(entities, role, active) == [e \in entities |-> [role |-> role, active |-> active]]
NoAccess == AccessRows({}, "read_only", FALSE)

-----------------------------------------------------------------------------
VARIABLES
  profiles,    \* app_profiles: role and active_status of each login
  granted,     \* finance_user_permissions
  access,      \* user_entity_access
  creations,   \* where each creation stands
  pages,       \* the edit form of each page, and how far its save is
  unsettled    \* history: logins on which a change stopped midway, or two met

staffVars == <<profiles, granted, access, creations, pages, unsettled>>

NoProfile == [role |-> "none", active |-> FALSE]
NoTicks == {"no row"}
NoCreation == [step |-> "none", login |-> NoLogin]
NoForm == [step |-> "closed", login |-> NoLogin]
Exists(u) == u \in Login /\ profiles[u] # NoProfile

Creating(q) == creations[q].step \in {"profile", "grants", "access", "rollback"}
Saving(w) == pages[w].step \in {"grants", "delete", "insert"}

\* Everybody who is between two writes on u.
AtWork(u) == {q \in CreateCall : Creating(q) /\ creations[q].login = u}
             \cup {w \in StaffPage : Saving(w) /\ pages[w].login = u}
\* A first write on u while somebody else is at work on it.
Meeting(u) == IF AtWork(u) # {} THEN unsettled \cup {u} ELSE unsettled

StaffInit ==
  /\ profiles = [u \in Login |-> IF u \in OwnerLogin THEN [role |-> "owner", active |-> TRUE]
                                 ELSE NoProfile]
  /\ granted = [u \in Login |-> NoTicks]
  /\ access = [u \in Login |-> NoAccess]
  /\ creations = [q \in CreateCall |-> NoCreation]
  /\ pages = [w \in StaffPage |-> NoForm]
  /\ unsettled = {}

-----------------------------------------------------------------------------
(* Creating a login *)

\* The checks of the call; an email that has a profile is refused.
AskForLogin(q, u, role, ticks, entities, aal2) ==
  /\ creations[q] = NoCreation /\ ~Exists(u)
  /\ creations' = [creations EXCEPT ![q] =
       [step |-> "login", login |-> u, role |-> role, ticks |-> ticks,
        entities |-> entities, aal2 |-> aal2]]
  /\ UNCHANGED <<profiles, granted, access, pages, unsettled>>

\* The service makes the login, and its trigger a profile that may only read.
\* An email that has got a login since is refused here.
CreateLogin(q) ==
  LET u == creations[q].login IN
  /\ creations[q].step = "login"
  /\ IF Exists(u)
     THEN creations' = [creations EXCEPT ![q].step = "refused"] /\ UNCHANGED profiles
     ELSE /\ creations' = [creations EXCEPT ![q].step = "profile"]
          /\ profiles' = [profiles EXCEPT ![u] = [role |-> "read_only", active |-> TRUE]]
  /\ UNCHANGED <<granted, access, pages, unsettled>>

MoveCreation(q, step) == creations' = [creations EXCEPT ![q].step = step]

UpsertProfile(q, ok) ==
  LET c == creations[q] IN
  /\ c.step = "profile"
  /\ IF c.aal2 /\ ok
     THEN /\ profiles' = [profiles EXCEPT ![c.login] = [role |-> c.role, active |-> TRUE]]
          /\ MoveCreation(q, "grants")
     ELSE MoveCreation(q, "rollback") /\ UNCHANGED profiles
  /\ UNCHANGED <<granted, access, pages, unsettled>>

UpsertGrants(q, ok) ==
  LET c == creations[q] IN
  /\ c.step = "grants"
  /\ IF ok THEN /\ granted' = [granted EXCEPT ![c.login] = c.ticks \ {"can_view_bank_balances"}]
                /\ MoveCreation(q, IF c.entities = {} THEN "created" ELSE "access")
     ELSE MoveCreation(q, "rollback") /\ UNCHANGED granted
  /\ UNCHANGED <<profiles, access, pages, unsettled>>

\* An upsert: the rows of other entities that somebody else gave stay.
GiveAccess(q, ok) ==
  LET c == creations[q] IN
  /\ c.step = "access"
  /\ IF ok THEN /\ access' = [access EXCEPT ![c.login] =
                     [e \in c.entities \cup DOMAIN @ |->
                        IF e \in c.entities THEN [role |-> c.role, active |-> TRUE] ELSE @[e]]]
                /\ MoveCreation(q, "created")
     ELSE MoveCreation(q, "rollback") /\ UNCHANGED access
  /\ UNCHANGED <<profiles, granted, pages, unsettled>>

\* The login is deleted; that this may fail too is not looked at.  A form
\* that shows it is then of a login that is gone, even if its email comes back.
RollbackCreatedUser(q, ok) ==
  LET u == creations[q].login IN
  /\ creations[q].step = "rollback"
  /\ MoveCreation(q, "failed")
  /\ profiles' = IF ok THEN [profiles EXCEPT ![u] = NoProfile] ELSE profiles
  /\ granted' = IF ok THEN [granted EXCEPT ![u] = NoTicks] ELSE granted
  /\ access' = IF ok THEN [access EXCEPT ![u] = NoAccess] ELSE access
  /\ unsettled' = IF ok THEN unsettled ELSE unsettled \cup {u}
  /\ pages' = [w \in StaffPage |->
                 IF ok /\ pages[w].login = u THEN [pages[w] EXCEPT !.login = NoLogin] ELSE pages[w]]

CreationDies(q) ==
  /\ Creating(q) \/ creations[q].step = "login"
  /\ MoveCreation(q, "failed")
  /\ unsettled' = IF Creating(q) THEN unsettled \cup {creations[q].login} ELSE unsettled
  /\ UNCHANGED <<profiles, granted, access, pages>>

-----------------------------------------------------------------------------
(* Editing a login *)

\* The form of a login as the page loads it; the ticks of one that has no
\* permissions row are those of its role.
OpenEdit(w, u, aal2) ==
  /\ ~Saving(w) /\ Exists(u)
  /\ pages' = [pages EXCEPT ![w] =
       [step |-> "open", login |-> u, role |-> profiles[u].role, active |-> profiles[u].active,
        ticks |-> IF granted[u] = NoTicks THEN RoleDefaults(profiles[u].role) ELSE granted[u],
        entities |-> {e \in DOMAIN access[u] : access[u][e].active}, aal2 |-> aal2]]
  /\ UNCHANGED <<profiles, granted, access, creations, unsettled>>

\* The form of an owner shows the display name only.
Form(w) == pages[w].step = "open" /\ pages[w].role # "owner"

EditRole(w, role) ==
  /\ Form(w)
  /\ pages' = [pages EXCEPT ![w].role = role, ![w].ticks = RoleDefaults(role)]
  /\ UNCHANGED <<profiles, granted, access, creations, unsettled>>

EditForm(w, active, ticks, entities) ==
  /\ Form(w)
  /\ pages' = [pages EXCEPT ![w].active = active, ![w].ticks = ticks, ![w].entities = entities]
  /\ UNCHANGED <<profiles, granted, access, creations, unsettled>>

\* The first write of a save.  A session without the second factor changes no
\* row and is told nothing.
SaveProfile(w, ok) ==
  LET f == pages[w] IN
  /\ Form(w)
  /\ IF ~ok THEN UNCHANGED <<profiles, pages, unsettled>>
     ELSE /\ profiles' = IF f.aal2 /\ Exists(f.login)
                         THEN [profiles EXCEPT ![f.login] = [role |-> f.role, active |-> f.active]]
                         ELSE profiles
          /\ pages' = [pages EXCEPT ![w].step = "grants"]
          /\ unsettled' = IF Exists(f.login) THEN Meeting(f.login) ELSE unsettled
  /\ UNCHANGED <<granted, access, creations>>

\* A save that ends early leaves what it wrote, if it wrote.
EndEarly(w) ==
  /\ pages' = [pages EXCEPT ![w].step = "open"]
  /\ unsettled' = IF pages[w].aal2 THEN unsettled \cup ({pages[w].login} \cap Login)
                  ELSE unsettled

SaveGrants(w, ok) ==
  LET f == pages[w] IN
  /\ f.step = "grants"
  /\ IF ok /\ f.aal2 /\ Exists(f.login)
     THEN /\ granted' = [granted EXCEPT ![f.login] = f.ticks \ {"can_view_bank_balances"}]
          /\ pages' = [pages EXCEPT ![w].step = "delete"]
          /\ UNCHANGED unsettled
     ELSE EndEarly(w) /\ UNCHANGED granted
  /\ UNCHANGED <<profiles, access, creations>>

\* Mutant of AfterDelete: only the rows of the entities in the form are replaced.
AfterDeleteOfTheForm(f, rows) == [e \in DOMAIN rows \ f.entities |-> rows[e]]

\* What is left of a login's entity rows: none.
AfterDelete(f, rows) == NoAccess

DeleteAccess(w, ok) ==
  LET f == pages[w] IN
  /\ f.step = "delete"
  /\ IF ok THEN /\ access' = [u \in Login |-> IF u = f.login THEN AfterDelete(f, access[u])
                                            ELSE access[u]]
                /\ pages' = [pages EXCEPT ![w].step = IF f.entities = {} THEN "open" ELSE "insert"]
                /\ UNCHANGED unsettled
     ELSE EndEarly(w) /\ UNCHANGED access
  /\ UNCHANGED <<profiles, granted, creations>>

\* Refused when the login is gone or has got a row of one of the entities.
InsertAccess(w, ok) ==
  LET f == pages[w] IN
  /\ f.step = "insert"
  /\ IF ok /\ Exists(f.login) /\ f.entities \cap DOMAIN access[f.login] = {}
     THEN /\ access' = [access EXCEPT ![f.login] =
               [e \in f.entities \cup DOMAIN @ |->
                  IF e \in f.entities THEN [role |-> f.role, active |-> f.active] ELSE @[e]]]
          /\ pages' = [pages EXCEPT ![w].step = "open"]
          /\ UNCHANGED unsettled
     ELSE EndEarly(w) /\ UNCHANGED access
  /\ UNCHANGED <<profiles, granted, creations>>

\* The page is closed, or its connection lost, between two writes.
LeavePage(w) ==
  /\ pages[w] # NoForm
  /\ pages' = [pages EXCEPT ![w] = NoForm]
  /\ unsettled' = IF Saving(w) /\ pages[w].aal2
                  THEN unsettled \cup ({pages[w].login} \cap Login) ELSE unsettled
  /\ UNCHANGED <<profiles, granted, access, creations>>

-----------------------------------------------------------------------------
CreationStep(q) ==
  \/ \E u \in Login, role \in StaffRole, entities \in SUBSET StaffEntity, aal2 \in BOOLEAN :
       \E ticks \in TicksFor(role), more \in SUBSET Ticked :
         AskForLogin(q, u, role, ticks \cup more, entities, aal2)
  \/ CreateLogin(q) \/ CreationDies(q)
  \/ \E ok \in BOOLEAN : \/ UpsertProfile(q, ok) \/ UpsertGrants(q, ok) \/ GiveAccess(q, ok)
                         \/ RollbackCreatedUser(q, ok)

PageStep(w) ==
  \/ \E u \in Login, aal2 \in BOOLEAN : OpenEdit(w, u, aal2)
  \/ \E role \in StaffRole : EditRole(w, role)
  \/ \E active \in BOOLEAN, off, on \in SUBSET Ticked, entities \in SUBSET StaffEntity :
       EditForm(w, active, (pages[w].ticks \ off) \cup on, entities)
  \/ \E ok \in BOOLEAN : \/ SaveProfile(w, ok) \/ SaveGrants(w, ok) \/ DeleteAccess(w, ok)
                         \/ InsertAccess(w, ok)
  \/ LeavePage(w)

StaffNext == (\E q \in CreateCall : CreationStep(q)) \/ (\E w \in StaffPage : PageStep(w))

StaffSpec == StaffInit /\ [][StaffNext]_staffVars

-----------------------------------------------------------------------------
\* The types of the logins, of the creations and of the pages.
StaffTypeOK ==
  /\ \A u \in Login :
       /\ profiles[u].role \in ProfileRole \cup {"none"} /\ profiles[u].active \in BOOLEAN
       /\ granted[u] = NoTicks \/ granted[u] \subseteq FinancePermission
       /\ DOMAIN access[u] \subseteq StaffEntity
       /\ ~Exists(u) => granted[u] = NoTicks /\ access[u] = NoAccess
       /\ u \in OwnerLogin <=> profiles[u].role = "owner"
  /\ \A q \in CreateCall : creations[q].step \in
       {"none", "login", "profile", "grants", "access", "rollback", "created", "failed", "refused"}
  /\ \A w \in StaffPage : pages[w].step \in {"closed", "open", "grants", "delete", "insert"}
  /\ unsettled \subseteq Login

\* A login on which nobody is at work, and on which no change ever stopped
\* midway or met another, has entity rows that all carry the role and the
\* activity of its profile: nobody keeps an entity with the rights of a role
\* that was taken away, and a deactivated login keeps no active row
\* (saveStaff of the settings page; POST of admin/users/create).
SettledAccessAgrees ==
  \A u \in Login : u \notin unsettled /\ AtWork(u) = {} =>
    \A e \in DOMAIN access[u] : access[u][e] = profiles[u]
=============================================================================
