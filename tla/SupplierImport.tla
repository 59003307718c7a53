---------------------------- MODULE SupplierImport ----------------------------
(***************************************************************************)
(* The import of suppliers and their recurring obligations: a file becomes *)
(* a batch of preview rows; the page asks a person to decide on the rows   *)
(* that look like a supplier there is; confirming works through the rows,  *)
(* call by call; a batch may be discarded or reverted by a database        *)
(* function that locks it, and with it keeps off the inserts whose foreign *)
(* key names it.  Archiving a batch only hides it.                         *)
(*                                                                         *)
(* A row is abstracted to the name of its supplier: names, registration    *)
(* numbers and bank accounts all serve to recognise a supplier.  Every row *)
(* of a batch has the same entity.  All persons are owners.                *)
(***************************************************************************)
EXTENDS Integers, FiniteSets

CONSTANTS
  SBatch,        \* ids of rows of import_batches
  SRow,          \* row numbers of a file
  SName,         \* suppliers as the files name them
  SRequest,      \* confirm requests that may be in progress at once
  MaxSuppliers   \* bound: rows of suppliers of one name

ASSUME SupplierImportAssumption == MaxSuppliers \in Nat \ {0}

VARIABLES
  sbatches,   \* the rows of import_batches
  parses,     \* the rows a parse has still to insert, by batch
  srows,      \* the preview rows: the name, what became of it, the supplier
              \* and obligation it refers to (a set of one or none), and
              \* whether it arrived in a batch already discarded (a history)
  suppliers,  \* suppliers by name, each with the preview row it came from
  owed,       \* the obligations, each with its row and its supplier
  inUse,      \* the names whose supplier a bill refers to
  confirms    \* where each confirm request stands

supplierVars == <<sbatches, parses, srows, suppliers, owed, inUse, confirms>>

SStatus == {"none", "mapping", "processing", "failed", "completed",
            "completed_with_errors", "reverted"}
SResult == {"pending", "success", "skipped", "failed"}
\* What the page sends of a row.
Decision == {"excluded", "invalid", "skip", "update_existing", "import_as_new"}

NoConfirm == [step |-> "idle"]
Typed == <<0, 0>>   \* no preview row: typed on the screen

Preview(b) == {br \in DOMAIN srows : br[1] = b}
Named(n) == {s \in suppliers : s.name = n}
FromBatch(b) == {s \in suppliers : s.row # Typed /\ s.row[1] = b}
OwedFrom(b) == {o \in owed : o.row[1] = b}

\* import_batch_has_created_records.
HasCreated(b) ==
  \/ FromBatch(b) # {}
  \/ OwedFrom(b) # {}
  \/ \E br \in Preview(b) : srows[br].supplier # {} \/ srows[br].obligation # {}

-----------------------------------------------------------------------------
(* The page *)

\* The table is read and the batch inserted.  Every name may occur in several
\* rows; a row is marked as a duplicate when its supplier was there already.
InsertSBatch(b, names) ==
  /\ sbatches[b].status = "none"
  /\ sbatches' = [sbatches EXCEPT ![b].status = "mapping"]
  /\ parses' = [c \in DOMAIN parses \cup {b} |->
       IF c = b THEN [r \in DOMAIN names |->
                        [name |-> names[r], warned |-> Named(names[r]) # {}]]
       ELSE parses[c]]
  /\ UNCHANGED <<srows, suppliers, owed, inUse, confirms>>

\* The rows are another call, which looks at nothing: the batch may have been
\* discarded by then.
InsertSRows(b) ==
  /\ b \in DOMAIN parses
  /\ srows' = [br \in DOMAIN srows \cup ({b} \X DOMAIN parses[b]) |->
       IF br[1] = b
       THEN [name |-> parses[b][br[2]].name, warned |-> parses[b][br[2]].warned,
             result |-> "pending", supplier |-> {}, obligation |-> {},
             late |-> sbatches[b].discarded]
       ELSE srows[br]]
  /\ parses' = [c \in DOMAIN parses \ {b} |-> parses[c]]
  /\ UNCHANGED <<sbatches, suppliers, owed, inUse, confirms>>

\* A parse ends with its batch empty.
ParseDies(b) ==
  /\ b \in DOMAIN parses
  /\ parses' = [c \in DOMAIN parses \ {b} |-> parses[c]]
  /\ UNCHANGED <<sbatches, srows, suppliers, owed, inUse, confirms>>

\* A row without a warning is sent as new; one with a warning as decided.
FormOf(b, form) ==
  /\ DOMAIN form = {br[2] : br \in Preview(b)}
  /\ \A r \in DOMAIN form :
       ~srows[<<b, r>>].warned => form[r] \in {"excluded", "invalid", "import_as_new"}

\* The batch is read; a discarded batch keeps its status.
ReadSBatch(q, b, form) ==
  /\ confirms[q] = NoConfirm
  /\ sbatches[b].status \in {"mapping", "failed"} /\ FormOf(b, form) /\ form # <<>>
  /\ confirms' = [confirms EXCEPT ![q] =
       [step |-> "processing", batch |-> b, form |-> form,
        names |-> [r \in DOMAIN form |-> srows[<<b, r>>].name],
        seen |-> {}, known |-> {}, listed |-> {},
        row |-> 0, supplier |-> {}, obligation |-> {}, failed |-> FALSE]]
  /\ UNCHANGED <<sbatches, parses, srows, suppliers, owed, inUse>>

SetSStatus(b, s) == sbatches' = [sbatches EXCEPT ![b].status = s]

MarkProcessing(q) ==
  /\ confirms[q].step = "processing"
  /\ SetSStatus(confirms[q].batch, "processing")
  /\ confirms' = [confirms EXCEPT ![q].step = "lookup"]
  /\ UNCHANGED <<parses, srows, suppliers, owed, inUse>>

\* The suppliers, the obligations and the preview rows are read, or the batch
\* fails.
ReadLookups(q) ==
  /\ confirms[q].step = "lookup"
  /\ LET b == confirms[q].batch IN
     \/ /\ confirms' = [confirms EXCEPT ![q].step = "rows", ![q].seen = suppliers,
             ![q].known = {br[2] : br \in Preview(b)}, ![q].listed = owed]
        /\ UNCHANGED sbatches
     \/ /\ SetSStatus(b, "failed")
        /\ confirms' = [confirms EXCEPT ![q] = NoConfirm]
  /\ UNCHANGED <<parses, srows, suppliers, owed, inUse>>

\* What is done with the row r of a form.
Outcome(rq, r) ==
  LET seen == \E s \in rq.seen : s.name = rq.names[r] IN
  CASE r \notin rq.known                                             -> "missing"
    [] r \in rq.known /\ rq.form[r] = "excluded"                     -> "skipped"
    [] r \in rq.known /\ rq.form[r] = "invalid"                      -> "failed"
    [] r \in rq.known /\ rq.form[r] = "skip" /\ seen                 -> "skipped"
    [] r \in rq.known /\ rq.form[r] = "update_existing" /\ seen      -> "update"
    [] OTHER                                                         -> "insert"

\* A row is marked, with what it refers to, by a call whose error is not looked
\* at: the row may be gone, or what it should refer to.
MarkSRow(br, result, supplier, obligation) ==
  srows' = IF br \in DOMAIN srows /\ supplier \subseteq suppliers /\ obligation \subseteq owed
           THEN [srows EXCEPT ![br] = [@ EXCEPT !.result = result, !.supplier = supplier,
                                                !.obligation = obligation]]
           ELSE srows

TakeRow(q, r) ==
  /\ confirms[q].step = "rows" /\ r \in DOMAIN confirms[q].form
  /\ LET rq  == confirms[q]
         out == Outcome(rq, r)
         rest == [k \in DOMAIN rq.form \ {r} |-> rq.form[k]]
     IN /\ confirms' = [confirms EXCEPT ![q].form = rest, ![q].row = r,
             ![q].step = CASE out = "insert" -> "supplier"
                           [] out = "update" -> "update"
                           [] OTHER -> "rows",
             ![q].failed = @ \/ out \in {"failed", "missing"}]
        /\ IF out \in {"skipped", "failed"}
           THEN MarkSRow(<<rq.batch, r>>, out, {}, {}) ELSE UNCHANGED srows
  /\ UNCHANGED <<sbatches, parses, suppliers, owed, inUse>>

\* Mutant of SourceRowExists: the column is not a foreign key.
SourceRowAny(br) == TRUE

\* source_import_row_id refers to the preview row.
SourceRowExists(br) == br \in DOMAIN srows

\* The row the request is at fails; the supplier stays, and the row refers to it.
FailRow(q, supplier) ==
  /\ MarkSRow(<<confirms[q].batch, confirms[q].row>>, "failed", supplier, {})
  /\ confirms' = [confirms EXCEPT ![q].step = "rows", ![q].failed = TRUE]

\* The supplier is inserted and remembered for the rows that follow.
InsertSupplier(q) ==
  /\ confirms[q].step = "supplier"
  /\ LET rq == confirms[q]
         br == <<rq.batch, rq.row>>
         s  == [name |-> rq.names[rq.row], row |-> br]
     IN \/ /\ SourceRowExists(br) /\ Cardinality(Named(s.name)) < MaxSuppliers
           /\ suppliers' = suppliers \cup {s}
           /\ confirms' = [confirms EXCEPT ![q].step = "obligation",
                             ![q].supplier = {s}, ![q].seen = @ \cup {s}]
           /\ UNCHANGED srows
        \/ ~SourceRowExists(br) /\ FailRow(q, {}) /\ UNCHANGED suppliers
  /\ UNCHANGED <<sbatches, parses, owed, inUse>>

\* Or a supplier of the name is updated, if it is still there.
UpdateSupplier(q) ==
  /\ confirms[q].step = "update"
  /\ \E s \in confirms[q].seen :
       /\ s.name = confirms[q].names[confirms[q].row]
       /\ IF s \in suppliers
          THEN /\ confirms' = [confirms EXCEPT ![q].step = "renewal", ![q].supplier = {s}]
               /\ UNCHANGED srows
          ELSE FailRow(q, {})
  /\ UNCHANGED <<sbatches, parses, suppliers, owed, inUse>>

\* The obligation is inserted, of a supplier and a row that are still there.
InsertObligation(q) ==
  /\ confirms[q].step \in {"obligation", "renewal"}
  /\ LET rq == confirms[q]
         br == <<rq.batch, rq.row>>
         o  == [row |-> br, supplier |-> rq.supplier] IN
     IF SourceRowExists(br) /\ rq.supplier \subseteq suppliers
     THEN /\ owed' = owed \cup {o}
          /\ confirms' = [confirms EXCEPT ![q].step = "mark", ![q].obligation = {o},
                                          ![q].listed = @ \cup {o}]
          /\ UNCHANGED srows
     ELSE FailRow(q, rq.supplier) /\ UNCHANGED owed
  /\ UNCHANGED <<sbatches, parses, suppliers, inUse>>

\* For a supplier that was there, one like it may be listed: it is updated, if
\* it is still there.
UpdateObligation(q) ==
  /\ confirms[q].step = "renewal"
  /\ \E o \in confirms[q].listed :
       /\ o.supplier = confirms[q].supplier
       /\ IF o \in owed
          THEN /\ confirms' = [confirms EXCEPT ![q].step = "mark", ![q].obligation = {o}]
               /\ UNCHANGED srows
          ELSE FailRow(q, confirms[q].supplier)
  /\ UNCHANGED <<sbatches, parses, suppliers, owed, inUse>>

MarkImported(q) ==
  /\ confirms[q].step = "mark"
  /\ LET rq == confirms[q] IN
     MarkSRow(<<rq.batch, rq.row>>, "success", rq.supplier, rq.obligation)
  /\ confirms' = [confirms EXCEPT ![q].step = "rows"]
  /\ UNCHANGED <<sbatches, parses, suppliers, owed, inUse>>

CloseSBatch(q) ==
  /\ confirms[q].step = "rows" /\ DOMAIN confirms[q].form = {}
  /\ SetSStatus(confirms[q].batch,
       IF confirms[q].failed THEN "completed_with_errors" ELSE "completed")
  /\ confirms' = [confirms EXCEPT ![q] = NoConfirm]
  /\ UNCHANGED <<parses, srows, suppliers, owed, inUse>>

ConfirmDies(q) ==
  /\ confirms[q] # NoConfirm
  /\ confirms' = [confirms EXCEPT ![q] = NoConfirm]
  /\ UNCHANGED <<sbatches, parses, srows, suppliers, owed, inUse>>

-----------------------------------------------------------------------------
(* The functions on a batch *)

DiscardSBatch(b) ==
  /\ sbatches[b].status \in {"mapping", "failed"} /\ ~HasCreated(b)
  /\ sbatches' = [sbatches EXCEPT ![b].discarded = TRUE]
  /\ srows' = [br \in DOMAIN srows \ Preview(b) |-> srows[br]]
  /\ UNCHANGED <<parses, suppliers, owed, inUse, confirms>>

\* The obligations no bill refers to go, then the suppliers without bills and
\* without obligations; here a bill of a supplier is one of its obligations.
\* What is gone is no longer referred to.
RevertSBatch(b) ==
  /\ sbatches[b].status \in {"completed", "completed_with_errors"} /\ HasCreated(b)
  /\ owed' = {o \in owed : o \in OwedFrom(b) => \E s \in o.supplier : s.name \in inUse}
  /\ suppliers' = {s \in suppliers : s \in FromBatch(b) =>
                     s.name \in inUse \/ \E o \in owed' : s \in o.supplier}
  /\ srows' = [br \in DOMAIN srows |->
                 [srows[br] EXCEPT !.supplier = @ \cap suppliers',
                                   !.obligation = @ \cap owed']]
  /\ SetSStatus(b, "reverted")
  /\ UNCHANGED <<parses, inUse, confirms>>

\* The supplier screen, and a bill for a supplier.
TypeSupplier(n) ==
  /\ Cardinality(Named(n)) < MaxSuppliers
  /\ suppliers' = suppliers \cup {[name |-> n, row |-> Typed]}
  /\ UNCHANGED <<sbatches, parses, srows, owed, inUse, confirms>>

BillSupplier(n) ==
  /\ Named(n) # {}
  /\ inUse' = inUse \cup {n}
  /\ UNCHANGED <<sbatches, parses, srows, suppliers, owed, confirms>>

-----------------------------------------------------------------------------
SupplierInit ==
  /\ sbatches = [b \in SBatch |-> [status |-> "none", discarded |-> FALSE]]
  /\ parses = <<>> /\ srows = <<>>
  /\ suppliers = {} /\ owed = {} /\ inUse = {}
  /\ confirms = [q \in SRequest |-> NoConfirm]

SupplierNext ==
  \/ \E b \in SBatch, rows \in SUBSET SRow \ {{}} :
        \E names \in [rows -> SName] : InsertSBatch(b, names)
  \/ \E b \in SBatch : InsertSRows(b)
  \/ \E b \in SBatch : ParseDies(b)
  \/ \E q \in SRequest, b \in SBatch :
        \E form \in [{br[2] : br \in Preview(b)} -> Decision] : ReadSBatch(q, b, form)
  \/ \E q \in SRequest : MarkProcessing(q)
  \/ \E q \in SRequest : ReadLookups(q)
  \/ \E q \in SRequest, r \in SRow : TakeRow(q, r)
  \/ \E q \in SRequest : InsertSupplier(q)
  \/ \E q \in SRequest : UpdateSupplier(q)
  \/ \E q \in SRequest : InsertObligation(q)
  \/ \E q \in SRequest : UpdateObligation(q)
  \/ \E q \in SRequest : MarkImported(q)
  \/ \E q \in SRequest : CloseSBatch(q)
  \/ \E q \in SRequest : ConfirmDies(q)
  \/ \E b \in SBatch : DiscardSBatch(b)
  \/ \E b \in SBatch : RevertSBatch(b)
  \/ \E n \in SName : TypeSupplier(n)
  \/ \E n \in SName : BillSupplier(n)

SupplierSpec == SupplierInit /\ [][SupplierNext]_supplierVars

SupplierTypeOK ==
  /\ sbatches \in [SBatch -> [status : SStatus, discarded : BOOLEAN]]
  /\ DOMAIN parses \subseteq SBatch
  /\ \A b \in DOMAIN parses :
        /\ DOMAIN parses[b] \subseteq SRow
        /\ \A r \in DOMAIN parses[b] : parses[b][r] \in [name : SName, warned : BOOLEAN]
  /\ DOMAIN srows \subseteq SBatch \X SRow
  /\ \A br \in DOMAIN srows :
        srows[br] \in [name : SName, result : SResult, warned : BOOLEAN, late : BOOLEAN,
                       supplier : SUBSET suppliers, obligation : SUBSET owed]
  /\ \A s \in suppliers : s.name \in SName
  /\ \A o \in owed : o.row \in SBatch \X SRow
  /\ inUse \subseteq SName
  /\ DOMAIN confirms = SRequest

\* "No supplier or recurring-obligation production records" come of the preview
\* that was discarded, by a confirmation that began before it either: what a
\* discarded batch has made is of rows its parse inserted after the discard,
\* which the discard could not delete and nothing after it looks for.
DiscardedMadeNothing ==
  \A b \in SBatch : sbatches[b].discarded =>
     \A br \in {s.row : s \in FromBatch(b)} \cup {o.row : o \in OwedFrom(b)} :
        br \in DOMAIN srows /\ srows[br].late
=============================================================================
