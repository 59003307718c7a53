---------------------------- MODULE IntakeReview ----------------------------
(***************************************************************************)
(* From the payload FinanceOps sends to the Data Verified of a person: the *)
(* validation of the payload, the draft bill proposed from it, and the     *)
(* review screens, each of which shows the rows it loaded last.  One       *)
(* intake; how its records are stored is BillIntake.                       *)
(*                                                                         *)
(* A text is the class of its shape ("plain", "blank", "long"...); amounts *)
(* are in tenths of a cent, dates are days.  An issue is the field it is   *)
(* about: its code and path only word the answer.  How alike two names are *)
(* is a percentage given with the supplier.  Flags that block nothing      *)
(* (currency, description, confidence, category) are left out.             *)
(***************************************************************************)
EXTENDS Integers, FiniteSets

CONSTANTS
  MaxMoney,     \* the largest amount taken, 999,999,999.99 in the code
  Payloads,     \* payloads FinanceOps may send, see Payload
  Supplier,     \* suppliers linked to the entity
  NoSupplier,
  SupplierOf,   \* active, and how registration and name fit the payload's
  Reviewer,     \* people who review
  Resolver,     \* those who also resolve an unknown entity
  TypedDay, TypedTotal   \* what a reviewer may type in a correction

Classes == {"absent", "null", "blank", "wrong", "long", "control", "newline",
            "malformed", "padded", "plain"}
NotStated == -1

Text == {"received_at", "file_id", "file_unique_id", "sender_ref", "name",
         "registration_number", "number", "date", "due_date", "currency",
         "description", "category", "agent", "version", "sha256", "filename",
         "notes"}
Required == {"received_at", "agent", "version", "sha256", "filename"}
Patterned == {"received_at", "date", "due_date", "currency", "sha256"}
Multiline == {"description", "notes"}
Money == {"subtotal", "tax_amount", "total_amount"}
Field == Text \cup Money \cup
  {"intake_id", "supersedes_intake_id", "channel", "chat_id", "message_id",
   "entity_code", "bill_type", "mime_type", "overall_confidence",
   "field_value", "field_confidence"}

Envelope == {"top", "source", "supplier", "invoice", "category_hint",
             "extraction", "document"}
EnvelopeOf ==
  [f \in Field |->
     CASE f \in {"channel", "chat_id", "message_id", "file_id",
                 "file_unique_id", "received_at", "sender_ref"} -> "source"
       [] f \in {"name", "registration_number"} -> "supplier"
       [] f \in Money \cup {"number", "date", "due_date", "currency",
                            "description", "bill_type"} -> "invoice"
       [] f = "category" -> "category_hint"
       [] f \in {"agent", "version", "overall_confidence", "field_value",
                 "field_confidence"} -> "extraction"
       [] f \in {"sha256", "mime_type", "filename"} -> "document"
       [] OTHER -> "top"]

Payload ==
  [class : [Field -> Classes],
   amount : [Money -> Int],
   day : [{"date", "due_date", "received_at"} -> Nat],
   envelope : [Envelope -> {"object", "absent", "wrong"}],
   extraKey : [Envelope -> BOOLEAN]]

ASSUME ReviewAssumption ==
  /\ MaxMoney \in Nat
  /\ \A p \in Payloads : p \in Payload
  /\ SupplierOf \in [Supplier -> [active : BOOLEAN, registration : BOOLEAN,
                                  similarity : 0..100]]
  /\ NoSupplier \notin Supplier
  /\ Resolver \subseteq Reviewer
  /\ TypedDay \subseteq Nat /\ TypedTotal \subseteq Nat

VARIABLES
  payload,   \* what FinanceOps sends
  intake,    \* its row
  draft,     \* the supplier bill made of it
  screen,    \* what each reviewer's screen loaded, and its ticked boxes
  ticked     \* every box ticked on a screen that recorded Data Verified

intakeVars == <<payload, intake, draft, screen, ticked>>

-----------------------------------------------------------------------------
(* Validation of the payload *)

TextRefused(f, c) ==
  \/ f \in Required /\ c \in {"absent", "null", "blank"}
  \/ c \in {"wrong", "long", "control"}
  \/ c = "newline" /\ f \notin Multiline
  \/ c = "malformed" /\ f \in Patterned

IdRefused(c) == c \notin {"plain", "padded"}

AmountRefused(c, n) ==
  \/ c \notin {"absent", "null", "plain"}
  \/ c = "plain" /\ (n < 0 \/ n > MaxMoney \/ n % 10 # 0)

FieldRefused(p, f) ==
  LET c == p.class[f]
  IN CASE f \in Text -> TextRefused(f, c)
       [] f \in Money -> AmountRefused(c, p.amount[f])
       [] f \in {"chat_id", "message_id"} -> IdRefused(c)
       [] f = "supersedes_intake_id" -> c \notin {"absent", "plain"}
       [] f = "entity_code" -> c \notin {"null", "plain"}
       [] f = "bill_type" -> c \notin {"absent", "plain"}
       [] f = "field_value" -> c \in {"absent", "wrong", "long", "control"}
       [] OTHER -> c # "plain"

Present(p, e) == e = "top" \/ p.envelope[e] = "object"

EnvelopeRefused(p, e) ==
  \/ p.envelope[e] = "wrong"
  \/ p.envelope[e] = "absent" /\ e \in {"source", "invoice", "extraction", "document"}
  \/ Present(p, e) /\ p.extraKey[e]

\* parseBillIntake finds no issue.
Accepted(p) ==
  /\ \A e \in Envelope : ~EnvelopeRefused(p, e)
  /\ \A f \in Field : Present(p, EnvelopeOf[f]) => ~FieldRefused(p, f)

Stated(p, f) ==
  Present(p, EnvelopeOf[f]) /\ p.class[f] \notin {"absent", "null", "blank"}

AmountOf(p, f) == IF Stated(p, f) THEN p.amount[f] ELSE NotStated

-----------------------------------------------------------------------------
(* The draft bill proposed from it *)

Active == {s \in Supplier : SupplierOf[s].active}

\* matchSupplier: only an unambiguous match names a supplier.
SupplierMatch(p) ==
  LET named == Stated(p, "name")
      numbered == Stated(p, "registration_number")
      hits == {s \in Active : numbered /\ SupplierOf[s].registration}
      exact == {s \in Active : named /\ SupplierOf[s].similarity = 100}
      similar == {s \in Active : named /\ SupplierOf[s].similarity >= 60}
  IN IF Cardinality(hits) = 1
     THEN IF ~named \/ (\A s \in hits : SupplierOf[s].similarity >= 30)
          THEN [status |-> "exact", suppliers |-> hits]
          ELSE [status |-> "candidates", suppliers |-> hits \cup similar]
     ELSE IF hits = {} /\ Cardinality(exact) = 1
     THEN [status |-> "exact", suppliers |-> exact]
     ELSE [status |-> IF hits \cup similar = {} THEN "none" ELSE "candidates",
           suppliers |-> hits \cup similar]

BillDate(p) ==
  IF Stated(p, "date") THEN p.day["date"] ELSE p.day["received_at"]

DueDate(p) == IF Stated(p, "due_date") THEN p.day["due_date"] ELSE BillDate(p)

Total(p) ==
  LET total == AmountOf(p, "total_amount")
      subtotal == AmountOf(p, "subtotal")
      tax == AmountOf(p, "tax_amount")
  IN IF total # NotStated THEN total
     ELSE IF subtotal = NotStated THEN 0
     ELSE subtotal + IF tax = NotStated THEN 0 ELSE tax

\* Mutant of ProposalFlags: the due date is flagged only beside a bill date.
ProposalFlagsDated(p) ==
  {f \in {"due_date_missing", "amount_missing", "amount_mismatch",
          "supplier_ambiguous", "supplier_unmatched"} :
     CASE f = "due_date_missing" -> ~Stated(p, "due_date") /\ Stated(p, "date")
       [] f = "amount_missing" -> Total(p) = 0
       [] f = "supplier_ambiguous" -> SupplierMatch(p).status = "candidates"
       [] f = "supplier_unmatched" -> SupplierMatch(p).status = "none"
       [] OTHER -> FALSE}

ProposalFlags(p) ==
  LET s == AmountOf(p, "subtotal")
      t == AmountOf(p, "tax_amount")
  IN {f \in {"due_date_missing", "amount_missing", "amount_mismatch",
             "supplier_ambiguous", "supplier_unmatched"} :
        CASE f = "due_date_missing" -> ~Stated(p, "due_date")
          [] f = "amount_missing" -> Total(p) = 0
          [] f = "amount_mismatch" ->
               /\ Stated(p, "total_amount") /\ s # NotStated /\ t # NotStated
               /\ s + t - Total(p) \notin -10..10
          [] f = "supplier_ambiguous" -> SupplierMatch(p).status = "candidates"
          [] f = "supplier_unmatched" -> SupplierMatch(p).status = "none"}

Proposal(p) ==
  [status |-> "draft",
   supplier |-> IF SupplierMatch(p).status = "exact"
                THEN CHOOSE s \in SupplierMatch(p).suppliers : TRUE
                ELSE NoSupplier,
   due |-> DueDate(p),
   total |-> Total(p),
   subtotal |-> IF AmountOf(p, "subtotal") = NotStated THEN Total(p)
                ELSE AmountOf(p, "subtotal"),
   tax |-> IF AmountOf(p, "tax_amount") = NotStated THEN 0
           ELSE AmountOf(p, "tax_amount")]

-----------------------------------------------------------------------------
(* The intake and its bill *)

NoDraft == [status |-> "none", supplier |-> NoSupplier, due |-> 0, total |-> 0,
            subtotal |-> 0, tax |-> 0]

Receive ==
  /\ intake.stage = "sent"
  /\ intake' =
       IF ~Accepted(payload) THEN [intake EXCEPT !.stage = "refused"]
       ELSE IF Stated(payload, "entity_code")
       THEN [intake EXCEPT !.stage = "received", !.entity = TRUE]
       ELSE [intake EXCEPT !.stage = "awaiting_entity",
                           !.flags = {"entity_unresolved"}]
  /\ UNCHANGED <<payload, draft, screen, ticked>>

\* The bill, its file and its links; the flags of the intake are replaced.
CreateBill ==
  /\ intake.stage = "received" /\ intake.review = "pending_review"
  /\ draft' = Proposal(payload)
  /\ \E duplicate \in BOOLEAN :
       intake' = [intake EXCEPT !.stage = "complete",
         !.flags = ProposalFlags(payload) \cup
                   IF duplicate THEN {"possible_duplicate"} ELSE {}]
  /\ UNCHANGED <<payload, screen, ticked>>

-----------------------------------------------------------------------------
(* The review screen *)

Closed == [open |-> FALSE, confirmed |-> {}]

Loaded(u) == [screen EXCEPT ![u].intake = intake', ![u].draft = draft']

Load(u) ==
  /\ intake.stage \notin {"sent", "refused"}
  /\ screen' = [screen EXCEPT ![u].intake = intake, ![u].draft = draft]
  /\ UNCHANGED <<payload, intake, draft, ticked>>

\* Opening and closing the panel unticks its boxes.
Toggle(u) ==
  /\ screen[u].intake.entity
  /\ screen' = [screen EXCEPT ![u].panel = [Closed EXCEPT !.open = ~screen[u].panel.open]]
  /\ UNCHANGED <<payload, intake, draft, ticked>>

\* A box is there for its flag only.
Boxes(flags) ==
  {b \in {"due_date", "amount", "entity", "supplier", "duplicates"} :
     CASE b = "due_date" -> "due_date_missing" \in flags
       [] b = "amount" -> "amount_missing" \in flags
       [] b = "entity" -> "entity_unresolved" \in flags
       [] b = "supplier" -> flags \cap {"supplier_unmatched", "supplier_ambiguous"} # {}
       [] b = "duplicates" -> "possible_duplicate" \in flags}

Tick(u, b) ==
  /\ screen[u].panel.open /\ b \in Boxes(screen[u].intake.flags)
  /\ screen' = [screen EXCEPT ![u].panel.confirmed = @ \cup {b}]
  /\ UNCHANGED <<payload, intake, draft, ticked>>

\* verificationBlockers is empty for what the screen shows.
NothingBlocks(s) ==
  /\ s.intake.entity /\ s.intake.stage = "complete"
  /\ s.draft.supplier # NoSupplier /\ s.draft.total > 0
  /\ Boxes(s.intake.flags) \subseteq s.panel.confirmed

Final == {"data_verified", "rejected"}

\* allowedReviewTargets, and the rules of the table, of a row in review.
Targets(row) ==
  LET verified == IF row.stage = "complete" THEN {"data_verified"} ELSE {}
  IN CASE row.review = "pending_review" ->
            verified \cup {"rejected", "needs_attention", "duplicate_suspected"}
       [] row.review = "needs_attention" -> verified \cup {"pending_review", "rejected"}
       [] row.review = "duplicate_suspected" -> {"pending_review", "rejected"}
       [] OTHER -> {}

Editable(s) ==
  s.draft.status = "draft" /\ Targets(s.intake) # {}

SaveCorrections(u, supplier, day, total) ==
  /\ screen[u].panel.open /\ Editable(screen[u])
  /\ draft.status = "draft"
  /\ draft' = [draft EXCEPT !.supplier = supplier, !.due = day, !.total = total,
                 !.subtotal = IF total > screen[u].draft.tax
                              THEN total - screen[u].draft.tax ELSE 0]
  /\ intake' = intake
  /\ screen' = Loaded(u)
  /\ UNCHANGED <<payload, ticked>>

SetReview(u, target) ==
  /\ screen[u].panel.open /\ target \in Targets(screen[u].intake)
  /\ target = "data_verified" => NothingBlocks(screen[u])
  /\ target \in Targets(intake)
  /\ intake' = [intake EXCEPT !.review = target]
  /\ draft' = draft
  /\ ticked' = IF target = "data_verified" THEN screen[u].panel.confirmed ELSE ticked
  /\ screen' = [Loaded(u) EXCEPT ![u].panel = Closed]
  /\ UNCHANGED payload

ResolveEntity(u) ==
  /\ u \in Resolver
  /\ screen[u].intake.stage = "awaiting_entity"
  /\ ~intake.entity /\ intake.review \notin Final
  /\ intake' = [intake EXCEPT !.entity = TRUE, !.stage = "received"]
  /\ draft' = draft
  /\ screen' = Loaded(u)
  /\ UNCHANGED <<payload, ticked>>

\* The card may be stale: the update is by id, whatever was resolved since.
RejectUnresolved(u) ==
  /\ u \in Resolver
  /\ screen[u].intake.stage = "awaiting_entity"
  /\ intake.review \notin Final
  /\ intake' = [intake EXCEPT !.review = "rejected"]
  /\ draft' = draft
  /\ screen' = [Loaded(u) EXCEPT ![u].panel = Closed]
  /\ UNCHANGED <<payload, ticked>>

IntakeReviewInit ==
  /\ payload \in Payloads
  /\ intake = [stage |-> "sent", entity |-> FALSE, review |-> "pending_review",
               flags |-> {}]
  /\ draft = NoDraft
  /\ screen = [u \in Reviewer |-> [intake |-> intake, draft |-> draft, panel |-> Closed]]
  /\ ticked = {}

IntakeReviewNext ==
  \/ Receive \/ CreateBill
  \/ \E u \in Reviewer :
       \/ Load(u) \/ Toggle(u)
       \/ \E b \in {"due_date", "amount", "entity", "supplier", "duplicates"} : Tick(u, b)
       \/ \E s \in Supplier \cup {NoSupplier}, d \in TypedDay, t \in TypedTotal :
            SaveCorrections(u, s, d, t)
       \/ \E t \in Final \cup {"pending_review", "needs_attention", "duplicate_suspected"} :
            SetReview(u, t)
       \/ ResolveEntity(u) \/ RejectUnresolved(u)

IntakeReviewSpec == IntakeReviewInit /\ [][IntakeReviewNext]_intakeVars

-----------------------------------------------------------------------------
(* Properties *)

IntakeReviewTypeOK ==
  /\ payload \in Payload
  /\ intake \in [stage : {"sent", "refused", "awaiting_entity", "received", "complete"},
                 entity : BOOLEAN,
                 review : Final \cup {"pending_review", "needs_attention",
                                      "duplicate_suspected"},
                 flags : SUBSET {"entity_unresolved", "due_date_missing",
                    "amount_missing", "amount_mismatch", "supplier_ambiguous",
                    "supplier_unmatched", "possible_duplicate"}]
  /\ draft \in [status : {"none", "draft"}, supplier : Supplier \cup {NoSupplier},
                due : Nat, total : Nat, subtotal : Nat, tax : Nat]
  /\ \A u \in Reviewer : screen[u].panel.confirmed \subseteq
       {"due_date", "amount", "entity", "supplier", "duplicates"}

\* What FinanceOps did not state and the proposal filled in (a due date, an
\* amount of nothing, a supplier that is not an exact match) was confirmed by
\* the person who recorded Data Verified, whatever the screens showed when.
\* VERIFY_BLOCKING_FLAGS: "Flags that a human must explicitly resolve".
GuessesAreConfirmed ==
  intake.review = "data_verified" =>
    /\ ~Stated(payload, "due_date") => "due_date" \in ticked
    /\ (\A f \in {"subtotal", "total_amount"} : ~Stated(payload, f))
         => "amount" \in ticked
    /\ SupplierMatch(payload).status # "exact" => "supplier" \in ticked
=============================================================================
