---------------------------- MODULE BankAllocation ----------------------------
(***************************************************************************)
(* The matching of one bank transaction of phase 3A: the confirm-match and *)
(* unmatch routes, the two database functions they call and the status the *)
(* database derives for the transaction.                                   *)
(*                                                                         *)
(* Confirming a match is up to three calls: the manual exception, the      *)
(* allocation as a suggestion, and the function that confirms it.  Between *)
(* them the allocation is a row like any other, which somebody else may    *)
(* already reverse.                                                        *)
(*                                                                         *)
(* Every change of an allocation makes the database derive the status of   *)
(* the transaction anew: it adds up the allocations and then writes.       *)
(*  - A confirmation locks the transaction before it adds anything up, and *)
(*    waits for the inserts under way, whose foreign key shares the lock:  *)
(*    one step, with no insert under way.                                  *)
(*  - A reversal locks its allocation only.  Its first derivation may add  *)
(*    up what is about to change, but it writes the transaction, and those *)
(*    that follow it in the same call add up again with that row locked.   *)
(*    Only the last is left when it commits: one step.                     *)
(*  - An insert derives once, and nothing keeps a reversal from committing *)
(*    between its sum and its write: two steps.                            *)
(*                                                                         *)
(* Abstracted: access (every person here may reconcile the entity and has  *)
(* AAL2; an owner is a person who may give an override reason), the linked *)
(* records other than one supplier bill, and the events and texts.         *)
(***************************************************************************)
EXTENDS Integers, FiniteSets

CONSTANTS
  Allocation,   \* ids of rows of bank_reconciliation_allocations
  TxAmount,     \* abs(amount) of the bank transaction
  Outstanding,  \* outstanding_amount of the supplier bill
  MaxAllocated, \* bound on the amount a person types
  IsReversal    \* is_reversal of the transaction: false by default, and never
                \* written by the code

ASSUME BankAllocationAssumption ==
  /\ TxAmount \in Nat \ {0} /\ Outstanding \in Nat /\ MaxAllocated \in Nat \ {0}
  /\ IsReversal \in BOOLEAN

VARIABLES
  allocations,  \* the rows of bank_reconciliation_allocations
  excepted,     \* does the transaction have an open manual exception?
  reconciled,   \* reconciliation_status of the transaction
  confirming,   \* confirm-match requests that have inserted: the allocation
                \* they will ask to confirm
  inserting,    \* the inserts under way: the row, the status found for the
                \* transaction, and whether a counted allocation was reversed since
  outdated      \* history: was the status last written by such an insert?

allocationVars ==
  <<allocations, excepted, reconciled, confirming, inserting, outdated>>

LinkedType == {"supplier_bill", "other", "manual_exception"}
AllocationRow ==
  [status : {"none", "suggested_match", "confirmed", "reversed"},
   linked : LinkedType, amount : 0..MaxAllocated, reversedAt : BOOLEAN]
NoAllocation ==
  [status |-> "none", linked |-> "other", amount |-> 0, reversedAt |-> FALSE]

ReconciledStatus ==
  {"unmatched", "partially_matched", "matched", "exception", "reversed"}
NoInsert == [row |-> NoAllocation, found |-> "unmatched", crossed |-> FALSE]
InsertUnderWay(a) == inserting[a].row.status # "none"

\* What is added up: the amounts that are confirmed and were never
\* reversed, unit by unit.
Counts(row) == row.status = "confirmed" /\ ~row.reversedAt
Units(rows) ==
  {u \in Allocation \X (1..MaxAllocated) :
     Counts(rows[u[1]]) /\ u[2] <= rows[u[1]].amount}
Allocated(rows) == Cardinality(Units(rows))

\* recalculate_bank_reconciliation_status, which every change of an allocation
\* triggers: what it finds.
Derived(rows, exc) ==
  CASE Allocated(rows) = 0 /\ exc      -> "exception"
    [] Allocated(rows) = 0 /\ ~exc     -> "unmatched"
    [] Allocated(rows) \in 1..TxAmount -> IF Allocated(rows) = TxAmount
                                          THEN "matched" ELSE "partially_matched"
    [] OTHER                           -> "exception"

Reconciled(rows, exc) == IF IsReversal THEN "reversed" ELSE Derived(rows, exc)

\* A change that adds up with the transaction locked.
SetAllocations(rows) ==
  /\ allocations' = rows
  /\ reconciled' = Reconciled(rows, excepted)
  /\ outdated' = FALSE

-----------------------------------------------------------------------------
\* A manual exception is inserted first, by a call that recalculates nothing.
InsertException ==
  /\ ~excepted
  /\ excepted' = TRUE
  /\ UNCHANGED <<allocations, reconciled, confirming, inserting, outdated>>

\* The allocation is inserted as a suggestion: its trigger finds the status...
BeginInsert(a, type, amount) ==
  /\ allocations[a].status = "none" /\ ~InsertUnderWay(a)
  /\ type = "manual_exception" => excepted
  /\ inserting' = [inserting EXCEPT ![a] =
       [row |-> [status |-> "suggested_match", linked |-> type, amount |-> amount,
                 reversedAt |-> FALSE],
        found |-> Reconciled(allocations, excepted), crossed |-> FALSE]]
  /\ UNCHANGED <<allocations, excepted, reconciled, confirming, outdated>>

\* ...and writes it; the row is seen from then on, by its own request too.
FinishInsert(a) ==
  /\ InsertUnderWay(a)
  /\ allocations' = [allocations EXCEPT ![a] = inserting[a].row]
  /\ reconciled' = inserting[a].found
  /\ outdated' = inserting[a].crossed
  /\ inserting' = [inserting EXCEPT ![a] = NoInsert]
  /\ confirming' = confirming \cup {a}
  /\ UNCHANGED excepted

InsertDies(a) ==
  /\ InsertUnderWay(a)
  /\ inserting' = [inserting EXCEPT ![a] = NoInsert]
  /\ UNCHANGED <<allocations, excepted, reconciled, confirming, outdated>>

\* The confirmed amount of the other allocations.
Others(a) == Cardinality({u \in Units(allocations) : u[1] # a})

\* Mutant of MayConfirm: the amount already confirmed is compared alone.
MayConfirmWhileLeft(a, override) ==
  /\ Others(a) < TxAmount
  /\ allocations[a].linked = "supplier_bill" =>
        allocations[a].amount <= Outstanding \/ override

MayConfirm(a, override) ==
  /\ Others(a) + allocations[a].amount <= TxAmount
  /\ allocations[a].linked = "supplier_bill" =>
        allocations[a].amount <= Outstanding \/ override

\* The function does not look at the status of the allocation; a refusal
\* leaves it a suggestion.
ConfirmAllocation(a, override) ==
  /\ a \in confirming
  /\ \A b \in Allocation : ~InsertUnderWay(b)
  /\ IF MayConfirm(a, override)
     THEN SetAllocations([allocations EXCEPT ![a].status = "confirmed"])
     ELSE UNCHANGED <<allocations, reconciled, outdated>>
  /\ confirming' = confirming \ {a}
  /\ UNCHANGED <<excepted, inserting>>

\* The confirm-match request ends before its last call.
ConfirmingDies(a) ==
  /\ a \in confirming
  /\ confirming' = confirming \ {a}
  /\ UNCHANGED <<allocations, excepted, reconciled, inserting, outdated>>

\* Any allocation may be reversed, a suggestion too.
ReverseAllocation(a) ==
  /\ allocations[a].status # "none"
  /\ SetAllocations([allocations EXCEPT ![a].status = "reversed",
                                        ![a].reversedAt = TRUE])
  /\ inserting' = [b \in Allocation |->
       [inserting[b] EXCEPT !.crossed =
          @ \/ (InsertUnderWay(b) /\ Counts(allocations[a]))]]
  /\ UNCHANGED <<excepted, confirming>>

-----------------------------------------------------------------------------
BankAllocationInit ==
  /\ allocations = [a \in Allocation |-> NoAllocation]
  /\ excepted = FALSE
  /\ reconciled = "unmatched"
  /\ confirming = {}
  /\ inserting = [a \in Allocation |-> NoInsert]
  /\ outdated = FALSE

BankAllocationNext ==
  \/ InsertException
  \/ \E a \in Allocation, type \in LinkedType, amount \in 1..MaxAllocated :
        BeginInsert(a, type, amount)
  \/ \E a \in Allocation : FinishInsert(a)
  \/ \E a \in Allocation : InsertDies(a)
  \/ \E a \in Allocation, override \in BOOLEAN : ConfirmAllocation(a, override)
  \/ \E a \in Allocation : ConfirmingDies(a)
  \/ \E a \in Allocation : ReverseAllocation(a)

BankAllocationSpec == BankAllocationInit /\ [][BankAllocationNext]_allocationVars

BankAllocationTypeOK ==
  /\ allocations \in [Allocation -> AllocationRow]
  /\ excepted \in BOOLEAN
  /\ reconciled \in ReconciledStatus
  /\ confirming \subseteq Allocation
  /\ inserting \in [Allocation -> [row : AllocationRow, found : ReconciledStatus,
                                  crossed : BOOLEAN]]
  /\ outdated \in BOOLEAN

\* A status that says how much of the transaction is matched.
SaysWhatIsMatched(status) ==
  /\ status = "matched" <=> Allocated(allocations) = TxAmount
  /\ status = "partially_matched" <=> Allocated(allocations) \in 1..(TxAmount - 1)

\* What is counted as matched never exceeds the transaction, whatever
\* confirmations, inserts and reversals are under way at once, and a transaction
\* is an exception only because somebody made it one.  Its status says how much
\* is matched, but for one interleaving: an insert that added up before a
\* confirmed allocation was reversed writes what it found, and the status stays
\* so until the next change.
MatchedWithinAmount ==
  /\ Allocated(allocations) <= TxAmount
  /\ ~outdated /\ ~IsReversal => SaysWhatIsMatched(reconciled)
  /\ reconciled = "exception" => excepted
=============================================================================
