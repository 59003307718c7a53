--------------------------- MODULE RegisterImport ---------------------------
(***************************************************************************)
(* The one-time import of the old Excel Payment Register: how a row of the *)
(* sheet is read, the preview with the choices made in it, and             *)
(* confirmRegisterImport call by call.  A confirmation parses the file     *)
(* again, reads the Payment IDs and references the register already has,   *)
(* and inserts row by row; it goes on after a row that fails, and may end  *)
(* anywhere.  The screen stops waiting when the answer is lost, while the  *)
(* call goes on.                                                           *)
(*                                                                         *)
(* A row is what its cells say: the entities its text names, the words its *)
(* purpose has.  A Payment ID or reference is <<key, spelling>>, and is    *)
(* compared by its key (the code folds case and, in references, all signs  *)
(* that are not letters or digits).                                        *)
(***************************************************************************)
EXTENDS Naturals, Sequences, FiniteSetsExt

CONSTANTS
  OldFile,     \* sheets: sequences of OldRow
  OldEntity,   \* codes of the entities
  NoEntity,
  OldAccount,  \* company accounts
  OldKey,      \* what Payment IDs and references are told apart by
  NoKey,
  OldCall      \* confirmations

OldLabel == (OldKey \X {"plain", "other"}) \cup {NoKey}
OldRow ==
  [id : OldLabel, ref : OldLabel, named : SUBSET OldEntity,
   account : OldAccount \cup {NoKey}, payer : SUBSET OldEntity,
   date : BOOLEAN, amount : {"none", "zero", "positive"},
   beneficiary : BOOLEAN, purpose : BOOLEAN,
   says : SUBSET {"wage", "rent", "claim", "invoice"}, invoiced : BOOLEAN,
   recon : {"blank", "posted", "reconciled", "held", "partial"},
   pending : BOOLEAN]

OldType == {"intern_wage", "rent_deposit", "staff_claim", "supplier_expense", "other"}
AccountMap == [OldAccount -> OldEntity \cup {NoEntity}]

ASSUME RegisterImportAssumption ==
  /\ OldFile \subseteq Seq(OldRow)
  /\ NoEntity \notin OldEntity /\ NoKey \notin OldAccount

-----------------------------------------------------------------------------
(* Reading a row *)

OneNamed(S) == IF \E e \in OldEntity : S = {e} THEN CHOOSE e \in OldEntity : S = {e}
               ELSE NoEntity

\* The Entity column, then the account paid from, then the payer's name.
InferEntity(row, accounts) ==
  LET basis == <<OneNamed(row.named),
                 IF row.account = NoKey THEN NoEntity ELSE accounts[row.account],
                 OneNamed(row.payer)>>
      known == {i \in 1..3 : basis[i] # NoEntity}
  IN IF known = {} THEN NoEntity ELSE basis[Min(known)]

InferPaymentType(row) ==
  CASE "wage" \in row.says -> "intern_wage"
    [] "wage" \notin row.says /\ "rent" \in row.says -> "rent_deposit"
    [] row.says \cap {"wage", "rent"} = {} /\ "claim" \in row.says -> "staff_claim"
    [] row.says \cap {"wage", "rent", "claim"} = {} /\ ("invoice" \in row.says \/ row.invoiced) ->
         "supplier_expense"
    [] OTHER -> "other"

ClosedStatus == {"posted_to_sql", "reconciled"}
TargetStatus(row) ==
  CASE row.recon = "reconciled" -> "reconciled"
    [] row.recon = "posted" -> "posted_to_sql"
    [] row.recon \notin {"reconciled", "posted"} /\ row.pending -> "captured"
    [] OTHER -> "documents_pending"

NeedsAttention(row, empty) ==
  \/ ~row.purpose /\ ~empty
  \/ TargetStatus(row) = "captured"
  \/ row.recon \in {"held", "partial"}

\* choice: [default, accounts, entity, type], the last two by row number.
MapRow(row, i, choice) ==
  LET inferred == InferEntity(row, choice.accounts)
      entity == IF inferred = NoEntity THEN choice.default ELSE inferred
      empty == row.id = NoKey /\ ~row.beneficiary /\ row.amount = "none" /\ ~row.date
      errors == {x \in {"entity", "date", "amount"} :
                   \/ x = "entity" /\ entity = NoEntity
                   \/ x = "date" /\ ~row.date /\ ~empty
                   \/ x = "amount" /\ row.amount # "positive" /\ ~empty}
      chosen == choice.entity[i]
      state == IF empty THEN "empty" ELSE IF errors # {} THEN "invalid" ELSE "new"
  IN [id |-> row.id, ref |-> row.ref,
      entity |-> IF chosen # NoEntity THEN chosen ELSE entity,
      type |-> IF choice.type[i] # "none" THEN choice.type[i] ELSE InferPaymentType(row),
      target |-> TargetStatus(row), attention |-> NeedsAttention(row, empty),
      state |-> IF chosen # NoEntity /\ state = "invalid" /\ errors = {"entity"}
                THEN "new" ELSE state]

Same(x, y) == x # NoKey /\ y # NoKey /\ x[1] = y[1]

\* Mutant of Duplicate: only what the register already has is looked at.
DuplicateOfStored(rows, i, stored) ==
  \E p \in stored : Same(rows[i].id, p.id) \/ Same(rows[i].ref, p.ref)

\* An earlier new row of the file counts even when it is a duplicate itself.
Duplicate(rows, i, stored) ==
  \/ \E p \in stored : Same(rows[i].id, p.id) \/ Same(rows[i].ref, p.ref)
  \/ \E j \in 1..(i - 1) : /\ rows[j].state = "new"
                           /\ Same(rows[i].id, rows[j].id) \/ Same(rows[i].ref, rows[j].ref)

PrepareRegister(file, choice, stored) ==
  LET rows == [i \in DOMAIN file |-> MapRow(file[i], i, choice)]
  IN [i \in DOMAIN rows |->
        IF rows[i].state = "new" /\ Duplicate(rows, i, stored)
        THEN [rows[i] EXCEPT !.state = "duplicate"] ELSE rows[i]]

\* The payment inserted for a row.
RegisterInsert(q, i, row, owner, waive) ==
  [call |-> q, at |-> i, id |-> row.id, ref |-> row.ref, entity |-> row.entity,
   type |-> row.type, attention |-> row.attention,
   status |-> IF row.target \in ClosedStatus /\ ~owner THEN "documents_pending" ELSE row.target,
   waived |-> waive /\ owner]

-----------------------------------------------------------------------------
VARIABLES
  oldPayments, \* the payments inserted
  oldScreen,   \* the page: its file, choices and preview
  oldCalls,    \* where each confirmation stands
  oldSeen      \* history: every confirmation saw all payments when it read, and
               \* none read while another inserted

registerImportVars == <<oldPayments, oldScreen, oldCalls, oldSeen>>

NoOldCall == [step |-> "none"]
Ended == [step |-> "ended"]
ChoiceOf(file, default, accounts) ==
  [default |-> default, accounts |-> accounts,
   entity |-> [i \in DOMAIN file |-> NoEntity], type |-> [i \in DOMAIN file |-> "none"]]
Waiting == oldScreen.waiting # NoKey
Running(q) == oldCalls[q].step \in {"reading", "inserting"}

\* The page of the Owner or a Finance Manager, or of another who may import.
RegisterImportInit ==
  /\ oldPayments = {} /\ oldSeen = TRUE
  /\ oldCalls = [q \in OldCall |-> NoOldCall]
  /\ \E owner \in BOOLEAN :
       oldScreen = [owner |-> owner, file |-> <<>>, waive |-> FALSE, rows |-> <<>>,
                    choice |-> ChoiceOf(<<>>, NoEntity, [a \in OldAccount |-> NoEntity]),
                    waiting |-> NoKey]

\* A new file clears the preview and the choices by row, not the other fields.
ChooseOldFile(f) ==
  /\ oldScreen' = [oldScreen EXCEPT !.file = f, !.rows = <<>>,
                     !.choice = ChoiceOf(f, @.default, @.accounts)]
  /\ UNCHANGED <<oldPayments, oldCalls, oldSeen>>

\* None of these refreshes the preview.
ChooseDefault(e) ==
  /\ oldScreen' = [oldScreen EXCEPT !.choice.default = e]
  /\ UNCHANGED <<oldPayments, oldCalls, oldSeen>>

ChooseAccounts(m) ==
  /\ oldScreen' = [oldScreen EXCEPT !.choice.accounts = m]
  /\ UNCHANGED <<oldPayments, oldCalls, oldSeen>>

TickWaive ==
  /\ oldScreen.owner
  /\ oldScreen' = [oldScreen EXCEPT !.waive = ~@]
  /\ UNCHANGED <<oldPayments, oldCalls, oldSeen>>

RowIsShown(i) == i \in DOMAIN oldScreen.rows /\ oldScreen.rows[i].state # "empty"

OverrideEntity(i, e) ==
  /\ RowIsShown(i) /\ oldScreen.rows[i].entity = NoEntity
  /\ oldScreen' = [oldScreen EXCEPT !.choice.entity[i] = e]
  /\ UNCHANGED <<oldPayments, oldCalls, oldSeen>>

OverrideType(i, t) ==
  /\ RowIsShown(i)
  /\ oldScreen' = [oldScreen EXCEPT !.choice.type[i] = t]
  /\ UNCHANGED <<oldPayments, oldCalls, oldSeen>>

\* A caller reads the payments of the entities the caller has access to.
VisibleTo(available) == {p \in oldPayments : p.entity \in available}

PreviewRegister(available) ==
  /\ ~Waiting /\ oldScreen.file # <<>>
  /\ oldScreen' = [oldScreen EXCEPT
       !.rows = PrepareRegister(oldScreen.file, oldScreen.choice, VisibleTo(available))]
  /\ UNCHANGED <<oldPayments, oldCalls, oldSeen>>

\* Sent with the choices as they stand, whatever the preview was made with.
ConfirmRegister(q, available) ==
  /\ ~Waiting /\ oldCalls[q] = NoOldCall
  /\ \E i \in DOMAIN oldScreen.rows : oldScreen.rows[i].state = "new"
  /\ oldCalls' = [oldCalls EXCEPT ![q] =
                    [step |-> "reading", file |-> oldScreen.file, choice |-> oldScreen.choice,
                     waive |-> oldScreen.waive, available |-> available,
                     rows |-> <<>>, at |-> 1]]
  /\ oldScreen' = [oldScreen EXCEPT !.waiting = q]
  /\ UNCHANGED <<oldPayments, oldSeen>>

ReadRegister(q) ==
  /\ oldCalls[q].step = "reading"
  /\ LET stored == VisibleTo(oldCalls[q].available) IN
     /\ oldCalls' = [oldCalls EXCEPT ![q].step = "inserting",
                       ![q].rows = PrepareRegister(oldCalls[q].file, oldCalls[q].choice, stored)]
     /\ oldSeen' = /\ oldSeen /\ stored = oldPayments
                    /\ \A o \in OldCall : oldCalls[o].step # "inserting"
  /\ UNCHANGED <<oldPayments, oldScreen>>

\* A row whose entity the caller cannot read, or that fails, is passed over.
InsertOldRow(q, ok) ==
  LET c == oldCalls[q] IN
  /\ c.step = "inserting" /\ c.at <= Len(c.rows)
  /\ LET row == c.rows[c.at] IN
     oldPayments' =
       IF row.state = "new" /\ row.entity \in c.available /\ ok
       THEN oldPayments \cup
              {RegisterInsert(q, c.at, row, oldScreen.owner, c.waive)}
       ELSE oldPayments
  /\ oldCalls' = [oldCalls EXCEPT ![q].at = @ + 1]
  /\ UNCHANGED <<oldScreen, oldSeen>>

FinishRegister(q) ==
  /\ oldCalls[q].step = "inserting" /\ oldCalls[q].at > Len(oldCalls[q].rows)
  /\ oldCalls' = [oldCalls EXCEPT ![q] = Ended]
  /\ oldScreen' = IF oldScreen.waiting = q
                  THEN [oldScreen EXCEPT !.rows = <<>>, !.waiting = NoKey] ELSE oldScreen
  /\ UNCHANGED <<oldPayments, oldSeen>>

RegisterCallDies(q) ==
  /\ Running(q)
  /\ oldCalls' = [oldCalls EXCEPT ![q] = Ended]
  /\ oldScreen' = [oldScreen EXCEPT !.waiting = IF @ = q THEN NoKey ELSE @]
  /\ UNCHANGED <<oldPayments, oldSeen>>

RegisterAnswerLost ==
  /\ Waiting
  /\ oldScreen' = [oldScreen EXCEPT !.waiting = NoKey]
  /\ UNCHANGED <<oldPayments, oldCalls, oldSeen>>

RegisterScreenStep ==
  \/ \E f \in OldFile : ChooseOldFile(f)
  \/ \E e \in OldEntity \cup {NoEntity} : ChooseDefault(e)
  \/ \E m \in AccountMap : ChooseAccounts(m)
  \/ TickWaive
  \/ \E i \in DOMAIN oldScreen.file :
       \/ \E e \in OldEntity : OverrideEntity(i, e)
       \/ \E t \in OldType : OverrideType(i, t)
  \/ \E available \in SUBSET OldEntity : PreviewRegister(available)

RegisterImportNext ==
  \/ RegisterScreenStep
  \/ \E q \in OldCall :
       \/ \E available \in SUBSET OldEntity : ConfirmRegister(q, available)
       \/ ReadRegister(q) \/ FinishRegister(q) \/ RegisterCallDies(q)
       \/ \E ok \in BOOLEAN : InsertOldRow(q, ok)
  \/ RegisterAnswerLost

RegisterImportSpec ==
  RegisterImportInit /\ [][RegisterImportNext]_registerImportVars

-----------------------------------------------------------------------------
MappedRow ==
  [id : OldLabel, ref : OldLabel, entity : OldEntity \cup {NoEntity}, type : OldType,
   target : ClosedStatus \cup {"captured", "documents_pending"}, attention : BOOLEAN,
   state : {"new", "duplicate", "invalid", "empty"}]

\* The types of the imported payments, of the page and of the calls.
RegisterImportTypeOK ==
  /\ \A p \in oldPayments :
       /\ p.entity \in OldEntity /\ p.type \in OldType
       /\ p.status \in ClosedStatus => oldScreen.owner
       /\ p.waived => oldScreen.owner
  /\ oldScreen.owner \in BOOLEAN /\ oldScreen.waive \in BOOLEAN
  /\ oldScreen.file \in OldFile \cup {<<>>}
  /\ \A i \in DOMAIN oldScreen.rows : oldScreen.rows[i] \in MappedRow
  /\ oldScreen.waiting \in OldCall \cup {NoKey}
  /\ \A q \in OldCall : oldCalls[q].step \in {"none", "reading", "inserting", "ended"}
  /\ oldSeen \in BOOLEAN

\* "Nothing is overwritten; duplicates are skipped": however often the same
\* sheet, or another with the same payments, is sent, a payment that has a
\* Payment ID or a reference is in the register once, in whatever spelling the
\* sheets give it, after calls that failed on rows or stopped midway and were
\* sent again (markRegisterDuplicates, confirmRegisterImport).  The exceptions
\* are two confirmations at once, each reading before the other inserts, a
\* caller without access to the entity the payment was imported for, and a
\* register of more than a thousand payments: it is read in pages without an
\* order, and a page may miss what another had; one step reads it here.
OldPaymentOnce ==
  oldSeen =>
    \A p, r \in oldPayments : p # r => ~Same(p.id, r.id) /\ ~Same(p.ref, r.ref)
=============================================================================
