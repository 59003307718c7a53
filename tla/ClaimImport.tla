----------------------------- MODULE ClaimImport ------------------------------
(***************************************************************************)
(* The import of a month of credit-card transactions as a claim.  A file   *)
(* is parsed into a batch of preview rows; the screen keeps a copy of the  *)
(* rows, which a person maps, corrects, excludes and decides about; the    *)
(* confirmation makes one claim and a line for each row that is left.      *)
(* Every request is a series of database calls and may end after any.      *)
(*                                                                         *)
(* A row is known by what its duplicate fingerprint is made of; the rows   *)
(* that pass the validation are a constant.  One entity and month.         *)
(***************************************************************************)
EXTENDS Integers, Sequences, FiniteSets

CONSTANTS
  CardLine,        \* what a row of a card statement may say
  ValidLine,       \* those the validation accepts
  CardFile,        \* files, each a sequence of rows
  ClaimBatch,      \* ids of rows of claim_import_batches
  ClaimRequest,    \* requests that may be in progress at once
  MaxImported      \* bound: claims made of a batch, and lines of one content

ASSUME ClaimImportAssumption ==
  /\ ValidLine \subseteq CardLine
  /\ CardFile \subseteq Seq(CardLine)
  /\ MaxImported \in Nat \ {0}

VARIABLES
  cardBatches,   \* the rows of claim_import_batches and of claim_import_rows
  cardLines,     \* how many claim_lines carry each content
  cardClaims,    \* how many claims were made of each batch
  cardScreen,    \* the preview a person has open
  cardCalls      \* where each parse or confirm request stands

claimImportVars == <<cardBatches, cardLines, cardClaims, cardScreen, cardCalls>>

CardBatchStatus == {"none", "mapping", "processing", "completed",
                    "completed_with_errors", "failed"}
CardResult == {"none", "pending", "imported", "skipped", "failed"}
NoBatch == [status |-> "none", rows |-> <<>>]

PreviewRow == [mapped : CardLine, errors : BOOLEAN, warned : BOOLEAN,
               excluded : BOOLEAN, decision : {"pending", "skip", "import_as_new"}]
NoScreen == [batch |-> "none", file |-> <<>>, rows |-> <<>>]
NoCardCall == [step |-> "idle"]
CardSteps == {"idle", "batch", "rows", "start", "claim", "lookup", "row", "mark", "close"}

\* What the request looks up of a row, and what it answers the screen.
Previewed(line, known) ==
  [mapped |-> line, errors |-> line \notin ValidLine, warned |-> line \in known,
   excluded |-> FALSE,
   decision |-> IF line \in known THEN "pending" ELSE "import_as_new"]

-----------------------------------------------------------------------------
(* Parsing a file *)

\* The duplicates are looked for among the lines that are stored, not within
\* the file and not among files being imported.
ParseCardFile(q, f) ==
  /\ cardCalls[q] = NoCardCall
  /\ cardCalls' = [cardCalls EXCEPT ![q] =
       [step |-> "batch", file |-> f,
        known |-> {x \in CardLine : cardLines[x] > 0}]]
  /\ UNCHANGED <<cardBatches, cardLines, cardClaims, cardScreen>>

InsertCardBatch(q, b) ==
  /\ cardCalls[q].step = "batch" /\ cardBatches[b] = NoBatch
  /\ cardBatches' = [cardBatches EXCEPT ![b].status = "mapping"]
  /\ cardCalls' = [cardCalls EXCEPT ![q] =
       [step |-> "rows", batch |-> b, file |-> @.file, known |-> @.known]]
  /\ UNCHANGED <<cardLines, cardClaims, cardScreen>>

InsertCardRows(q) ==
  /\ cardCalls[q].step = "rows"
  /\ LET c == cardCalls[q] IN
     /\ cardBatches' = [cardBatches EXCEPT ![c.batch].rows =
                          [i \in DOMAIN c.file |-> "pending"]]
     /\ cardScreen' = [batch |-> c.batch, file |-> c.file,
                       rows |-> [i \in DOMAIN c.file |-> Previewed(c.file[i], c.known)]]
  /\ cardCalls' = [cardCalls EXCEPT ![q] = NoCardCall]
  /\ UNCHANGED <<cardLines, cardClaims>>

-----------------------------------------------------------------------------
(* The preview *)

Editing == cardScreen # NoScreen /\ UNCHANGED <<cardBatches, cardLines, cardClaims, cardCalls>>

\* A field is typed over; the errors found by the parser stay as they were.
CorrectRow(i, line) ==
  /\ Editing
  /\ i \in DOMAIN cardScreen.rows /\ cardScreen.rows[i].mapped # line
  /\ cardScreen' = [cardScreen EXCEPT !.rows[i].mapped = line]

\* The columns are mapped again, over what was typed.
ApplyMapping ==
  /\ Editing
  /\ cardScreen' = [cardScreen EXCEPT !.rows =
       [i \in DOMAIN @ |-> [@[i] EXCEPT !.mapped = cardScreen.file[i]]]]

ExcludeRow(i, b) ==
  /\ Editing
  /\ i \in DOMAIN cardScreen.rows
  /\ cardScreen' = [cardScreen EXCEPT !.rows[i].excluded = b]

DecideDuplicate(i, d) ==
  /\ Editing
  /\ i \in DOMAIN cardScreen.rows /\ cardScreen.rows[i].warned
  /\ cardScreen' = [cardScreen EXCEPT !.rows[i].decision = d]

-----------------------------------------------------------------------------
(* Confirming *)

IsUsed(row) == ~row.excluded
PageAllows(rows) ==
  \A i \in DOMAIN rows : IsUsed(rows[i]) =>
    ~(rows[i].warned /\ rows[i].decision = "pending") /\ ~rows[i].errors

\* Mutant of RouteAllows: what the rows were corrected to is not validated again.
RouteAllowsDecided(rows) ==
  \A i \in DOMAIN rows : IsUsed(rows[i]) => rows[i].decision # "pending"

RouteAllows(rows) ==
  \A i \in DOMAIN rows : IsUsed(rows[i]) =>
    rows[i].mapped \in ValidLine /\ rows[i].decision # "pending"

\* The status is read here and written by the next call, unconditionally.
ConfirmCardBatch(q) ==
  /\ cardCalls[q] = NoCardCall /\ cardScreen # NoScreen
  /\ PageAllows(cardScreen.rows) /\ RouteAllows(cardScreen.rows)
  /\ cardBatches[cardScreen.batch].status \in {"mapping", "failed"}
  /\ cardCalls' = [cardCalls EXCEPT ![q] =
       [step |-> "start", batch |-> cardScreen.batch, rows |-> cardScreen.rows]]
  /\ UNCHANGED <<cardBatches, cardLines, cardClaims, cardScreen>>

StartCardBatch(q) ==
  /\ cardCalls[q].step = "start"
  /\ cardBatches' = [cardBatches EXCEPT ![cardCalls[q].batch].status = "processing"]
  /\ cardCalls' = [cardCalls EXCEPT ![q].step = "claim"]
  /\ UNCHANGED <<cardLines, cardClaims, cardScreen>>

\* An insertion that fails opens the batch for another confirmation.
InsertCardClaim(q, fails) ==
  /\ cardCalls[q].step = "claim"
  /\ LET b == cardCalls[q].batch IN
     IF fails
     THEN /\ cardBatches' = [cardBatches EXCEPT ![b].status = "failed"]
          /\ cardCalls' = [cardCalls EXCEPT ![q] = NoCardCall]
          /\ UNCHANGED cardClaims
     ELSE /\ cardClaims[b] < MaxImported
          /\ cardClaims' = [cardClaims EXCEPT ![b] = @ + 1]
          /\ cardCalls' = [cardCalls EXCEPT ![q].step = "lookup"]
          /\ UNCHANGED cardBatches
  /\ UNCHANGED <<cardLines, cardScreen>>

RowAt(c, i, failed) == [step |-> "row", batch |-> c.batch, rows |-> c.rows,
                        at |-> i, failed |-> failed]

\* The error of this read is not looked at: without the ids of the rows each of
\* them counts as failed, and none is written.
LookUpCardRows(q, found) ==
  /\ cardCalls[q].step = "lookup"
  /\ cardCalls' = [cardCalls EXCEPT ![q] =
                     RowAt(@, IF found THEN 1 ELSE Len(@.rows) + 1, ~found)]
  /\ UNCHANGED <<cardBatches, cardLines, cardClaims, cardScreen>>

\* A row that is left in becomes a line, or fails.
TakeCardRow(q, fails) ==
  /\ cardCalls[q].step = "row" /\ cardCalls[q].at \in DOMAIN cardCalls[q].rows
  /\ LET c    == cardCalls[q]
         row  == c.rows[c.at]
         skip == row.excluded \/ row.decision = "skip"
         res  == IF skip THEN "skipped" ELSE IF fails THEN "failed" ELSE "imported"
     IN  /\ skip => ~fails
         /\ res = "imported" => cardLines[row.mapped] < MaxImported
         /\ cardLines' = [cardLines EXCEPT ![row.mapped] =
                            IF res = "imported" THEN @ + 1 ELSE @]
         /\ cardCalls' = [cardCalls EXCEPT ![q] =
              [step |-> "mark", batch |-> c.batch, rows |-> c.rows, at |-> c.at,
               failed |-> c.failed \/ fails, as |-> res]]
  /\ UNCHANGED <<cardBatches, cardClaims, cardScreen>>

MarkCardRow(q) ==
  /\ cardCalls[q].step = "mark"
  /\ LET c == cardCalls[q] IN
     /\ cardBatches' = [cardBatches EXCEPT ![c.batch].rows[c.at] = c.as]
     /\ cardCalls' = [cardCalls EXCEPT ![q] = RowAt(c, c.at + 1, c.failed)]
  /\ UNCHANGED <<cardLines, cardClaims, cardScreen>>

\* The last row is done.  The totals of the claim are those of its lines.
CloseCardBatch(q) ==
  /\ cardCalls[q].step = "row" /\ cardCalls[q].at \notin DOMAIN cardCalls[q].rows
  /\ LET c == cardCalls[q] IN
     cardBatches' = [cardBatches EXCEPT ![c.batch].status =
                       IF c.failed THEN "completed_with_errors" ELSE "completed"]
  /\ cardCalls' = [cardCalls EXCEPT ![q] = NoCardCall]
  /\ UNCHANGED <<cardLines, cardClaims, cardScreen>>

CardRequestDies(q) ==
  /\ cardCalls[q] # NoCardCall
  /\ cardCalls' = [cardCalls EXCEPT ![q] = NoCardCall]
  /\ UNCHANGED <<cardBatches, cardLines, cardClaims, cardScreen>>

-----------------------------------------------------------------------------
ClaimImportInit ==
  /\ cardBatches = [b \in ClaimBatch |-> NoBatch]
  /\ cardLines = [x \in CardLine |-> 0]
  /\ cardClaims = [b \in ClaimBatch |-> 0]
  /\ cardScreen = NoScreen
  /\ cardCalls = [q \in ClaimRequest |-> NoCardCall]

ClaimImportNext ==
  \/ \E q \in ClaimRequest :
       \/ \E f \in CardFile : ParseCardFile(q, f)
       \/ \E b \in ClaimBatch : InsertCardBatch(q, b)
       \/ InsertCardRows(q) \/ ConfirmCardBatch(q) \/ StartCardBatch(q)
       \/ \E found \in BOOLEAN : LookUpCardRows(q, found)
       \/ MarkCardRow(q) \/ CloseCardBatch(q)
       \/ \E fails \in BOOLEAN : InsertCardClaim(q, fails) \/ TakeCardRow(q, fails)
       \/ CardRequestDies(q)
  \/ \E i \in DOMAIN cardScreen.rows :
       \/ \E x \in CardLine : CorrectRow(i, x)
       \/ \E b \in BOOLEAN : ExcludeRow(i, b)
       \/ \E d \in {"skip", "import_as_new"} : DecideDuplicate(i, d)
  \/ ApplyMapping

ClaimImportSpec == ClaimImportInit /\ [][ClaimImportNext]_claimImportVars

-----------------------------------------------------------------------------
\* The batches, the screen and the requests keep their shape.
ClaimImportTypeOK ==
  /\ \A b \in ClaimBatch : /\ cardBatches[b].status \in CardBatchStatus
                           /\ cardBatches[b].rows \in Seq(CardResult)
  /\ cardLines \in [CardLine -> 0..MaxImported]
  /\ cardClaims \in [ClaimBatch -> 0..MaxImported]
  /\ cardScreen.rows \in Seq(PreviewRow)
  /\ \A q \in ClaimRequest : cardCalls[q].step \in CardSteps

\* Only what the validation accepts becomes a claim line, whatever was
\* corrected, mapped again or excluded after the file was parsed and whichever
\* requests were interrupted on the way.
OnlyValidLinesImported == \A x \in CardLine : cardLines[x] > 0 => x \in ValidLine
=============================================================================
