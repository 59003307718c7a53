--------------------------- MODULE StatementImport ---------------------------
(***************************************************************************)
(* The import of bank statements into the Payment Register's bank rows:    *)
(* how a row of the file is read, and confirmStatementImport call by call. *)
(* It reads the fingerprints already stored, looks for the batch of the    *)
(* file, creates it if there is none, reads the highest row number and     *)
(* inserts the rows it took for new in chunks.  It may end anywhere, and   *)
(* is then sent again with the same file.                                  *)
(*                                                                         *)
(* One entity and one company account; the reviewers have AAL2.  A cell is *)
(* the set of the number it holds, {} when it holds none.  Bank rows and   *)
(* batches are insert-only.                                                *)
(***************************************************************************)
EXTENDS Integers, Sequences, FiniteSets

CONSTANTS
  StatementFile,    \* files, by their hash
  RowsOf,           \* their rows: [StatementFile -> Seq(StatementRow)]
  StatementRequest, \* requests that may be in progress at once
  ChunkSize,        \* rows per insert: 200
  MaxImports        \* bound on the number of imports begun

Cell == {c \in SUBSET Int : Cardinality(c) <= 1}
StatementRow ==
  [date : BOOLEAN, text : BOOLEAN, debit : Cell, credit : Cell, amount : Cell,
   indicator : {"none", "debit", "credit"}]

ASSUME StatementAssumption ==
  /\ ChunkSize \in Nat \ {0} /\ MaxImports \in Nat
  /\ RowsOf \in [StatementFile -> Seq(StatementRow)]

-----------------------------------------------------------------------------
(* Reading a row *)

Positive(c) == \E n \in c : n > 0
Absolute(c) == {IF n < 0 THEN -n ELSE n : n \in c}

\* The side and the amount of a row; a direction "unclear" is an error.
Reading(r) ==
  CASE Positive(r.debit) /\ Positive(r.credit) -> [direction |-> "unclear", amount |-> {}]
    [] Positive(r.debit) /\ ~Positive(r.credit) -> [direction |-> "debit", amount |-> r.debit]
    [] ~Positive(r.debit) /\ Positive(r.credit) -> [direction |-> "credit", amount |-> r.credit]
    [] OTHER ->
         CASE r.amount = {} -> [direction |-> "none", amount |-> {}]
           [] r.amount # {} /\ (r.indicator = "debit" \/ \E n \in r.amount : n < 0) ->
                [direction |-> "debit", amount |-> Absolute(r.amount)]
           [] r.amount # {} /\ r.indicator = "credit" /\ ~(\E n \in r.amount : n < 0) ->
                [direction |-> "credit", amount |-> Absolute(r.amount)]
           [] OTHER -> [direction |-> "unclear", amount |-> {}]

RowState(r) ==
  LET side == Reading(r).direction IN
  IF side = "none" /\ ~r.date /\ ~r.text THEN "empty"
  ELSE IF side \in {"none", "unclear"} \/ ~r.date THEN "invalid"
  ELSE "new"

\* The check fbt_amount of the table.
Storable(r) == Positive(Reading(r).amount)

\* The rows of a file that can be imported, by their positions.
New(f) == {i \in DOMAIN RowsOf[f] : RowState(RowsOf[f][i]) = "new"}
Occurrence(f, i) == Cardinality({j \in New(f) : j <= i /\ RowsOf[f][j] = RowsOf[f][i]})

\* Mutant of Fingerprint: the fingerprint of the content alone.
FingerprintByContent(f, i) == [row |-> RowsOf[f][i], nth |-> 1]

\* The fingerprint of a row: its content and how often it came before in the
\* file, so that two identical rows of one file stay two.
Fingerprint(f, i) == [row |-> RowsOf[f][i], nth |-> Occurrence(f, i)]

-----------------------------------------------------------------------------
VARIABLES
  stored,     \* the bank rows: the file of their batch, their number in it and
              \* their fingerprint
  statements, \* the files that have a batch
  imports,    \* where each request stands, and the positions left to insert
  begun,      \* imports begun, for MaxImports
  overlapped, \* history: were two imports ever in progress at once?
  doubled,    \* history: did a person ask to import duplicates?
  answered    \* history: the files whose import was answered

statementVars ==
  <<stored, statements, imports, begun, overlapped, doubled, answered>>

NoImport == [step |-> "idle"]

StoredPrints == {x.print : x \in stored}

\* The file is parsed and the fingerprints of the account are read.
ReadFingerprints(q, f, includeDuplicates) ==
  /\ imports[q] = NoImport /\ begun < MaxImports
  /\ LET known == {i \in New(f) : Fingerprint(f, i) \in StoredPrints}
         left  == IF includeDuplicates THEN New(f) ELSE New(f) \ known
     IN /\ imports' = [imports EXCEPT ![q] =
             IF left = {} THEN NoImport
             ELSE [step |-> "find", file |-> f, left |-> left, exists |-> FALSE, next |-> 0]]
        /\ doubled' = (doubled \/ left \cap known # {})
  /\ begun' = begun + 1
  /\ overlapped' = (overlapped \/ \E p \in StatementRequest : imports[p] # NoImport)
  /\ UNCHANGED <<stored, statements, answered>>

FindBatch(q) ==
  /\ imports[q].step = "find"
  /\ imports' = [imports EXCEPT ![q].step = "batch",
                                ![q].exists = imports[q].file \in statements]
  /\ UNCHANGED <<stored, statements, begun, overlapped, doubled, answered>>

\* The batch of the file is created once: its hash is unique.
CreateBatch(q) ==
  /\ imports[q].step = "batch"
  /\ LET f == imports[q].file IN
     IF ~imports[q].exists /\ f \in statements
     THEN imports' = [imports EXCEPT ![q] = NoImport] /\ UNCHANGED statements
     ELSE /\ statements' = statements \cup {f}
          /\ imports' = [imports EXCEPT ![q].step = "number"]
  /\ UNCHANGED <<stored, begun, overlapped, doubled, answered>>

LastNumber(f) ==
  LET taken == {x.number : x \in {y \in stored : y.file = f}}
  IN CHOOSE n \in taken \cup {0} : \A m \in taken : m <= n

ReadRowNumber(q) ==
  /\ imports[q].step = "number"
  /\ imports' = [imports EXCEPT ![q].step = "chunk",
                                ![q].next = LastNumber(imports[q].file) + 1]
  /\ UNCHANGED <<stored, statements, begun, overlapped, doubled, answered>>

Before(positions, i) == Cardinality({j \in positions : j < i})
FirstOf(positions) == {i \in positions : Before(positions, i) < ChunkSize}
AccountRow(c, i) ==
  [file |-> c.file, number |-> c.next + Before(c.left, i), print |-> Fingerprint(c.file, i)]

\* What the table accepts: the number of a row is unique in its batch.
Insertable(x) ==
  /\ Storable(x.print.row)
  /\ \A y \in stored : ~(y.file = x.file /\ y.number = x.number)

\* A chunk goes in whole or not at all, and then the request ends.
InsertRows(q) ==
  /\ imports[q].step = "chunk"
  /\ LET c     == imports[q]
         chunk == FirstOf(c.left)
         rest  == c.left \ chunk
     IN \/ /\ \A i \in chunk : Insertable(AccountRow(c, i))
           /\ stored' = stored \cup {AccountRow(c, i) : i \in chunk}
           /\ imports' = [imports EXCEPT ![q] =
                IF rest = {} THEN NoImport
                ELSE [c EXCEPT !.left = rest, !.next = c.next + Cardinality(chunk)]]
           /\ answered' = IF rest = {} THEN answered \cup {c.file} ELSE answered
        \/ /\ \E i \in chunk : ~Insertable(AccountRow(c, i))
           /\ imports' = [imports EXCEPT ![q] = NoImport]
           /\ UNCHANGED <<stored, answered>>
  /\ UNCHANGED <<statements, begun, overlapped, doubled>>

\* The function ends where it stands.
ImportDies(q) ==
  /\ imports[q] # NoImport
  /\ imports' = [imports EXCEPT ![q] = NoImport]
  /\ UNCHANGED <<stored, statements, begun, overlapped, doubled, answered>>

-----------------------------------------------------------------------------
StatementInit ==
  /\ stored = {}
  /\ statements = {} /\ answered = {}
  /\ imports = [q \in StatementRequest |-> NoImport]
  /\ begun = 0 /\ overlapped = FALSE /\ doubled = FALSE

StatementNext ==
  \/ \E q \in StatementRequest, f \in StatementFile, dup \in BOOLEAN :
        ReadFingerprints(q, f, dup)
  \/ \E q \in StatementRequest : FindBatch(q)
  \/ \E q \in StatementRequest : CreateBatch(q)
  \/ \E q \in StatementRequest : ReadRowNumber(q)
  \/ \E q \in StatementRequest : InsertRows(q)
  \/ \E q \in StatementRequest : ImportDies(q)

StatementSpec == StatementInit /\ [][StatementNext]_statementVars

StatementTypeOK ==
  /\ statements \subseteq StatementFile /\ answered \subseteq statements
  /\ \A x \in stored : x.file \in statements /\ Storable(x.print.row)
  /\ \A q \in StatementRequest :
        /\ imports[q].step \in {"idle", "find", "batch", "number", "chunk"}
        /\ imports[q] # NoImport => imports[q].left \subseteq New(imports[q].file)
  /\ begun \in 0..MaxImports
  /\ overlapped \in BOOLEAN /\ doubled \in BOOLEAN

\* How often a file and the account have the content r.
LineCount(f, r) == Cardinality({i \in New(f) : RowsOf[f][i] = r})
StoredCount(r) == Cardinality({x \in stored : x.print.row = r})

\* An import that answers has every line of the file in the account as often
\* as the file has it, whatever earlier attempts left behind; and as long as
\* imports do not overlap and nobody asks for duplicates, nothing is in the
\* account twice.
EveryLineOnce ==
  /\ \A f \in answered : \A i \in New(f) :
       LineCount(f, RowsOf[f][i]) <= StoredCount(RowsOf[f][i])
  /\ ~overlapped /\ ~doubled =>
       \A x, y \in stored : x.print = y.print => x = y
=============================================================================
