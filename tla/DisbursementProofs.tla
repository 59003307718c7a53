------------------------- MODULE DisbursementProofs -------------------------
(***************************************************************************)
(* Theorems about a claim and its vouchers.  Stale requests are what makes *)
(* them hard: a status update is by id alone, so the claim may be moved    *)
(* backwards by a request that read it long ago.  The argument is that     *)
(* some facts survive any such move: an approver once recorded is never    *)
(* erased, and whoever asks for a settlement status read an approved       *)
(* claim; no request asks for "draft".                                     *)
(***************************************************************************)
EXTENDS MCDisbursement, FiniteSetTheorems, TLAPS

\* The types of the claim's half of the state.
ClaimTyped ==
  /\ claim \in ClaimRow
  /\ lines \in [Line -> 0..MaxAmount]
  /\ advance \in 0..MaxAdvance
  /\ moves \subseteq Move
  /\ saves \subseteq Save

\* The types of the vouchers' half.
VoucherTyped ==
  /\ vouchers \in [Voucher -> VoucherRow]
  /\ paidBy \in Voucher \cup {NoVoucher}
  /\ generates \subseteq
       [user : User, voucher : Voucher \cup {NoVoucher},
        step : {"voucher", "item"}]

\* The statuses a claim reaches only after an approval.
Later == {"payment_prepared", "reimbursed", "entered_in_sql_accounting"}

\* Nobody asks for "draft", and whoever asks for a later status read a claim
\* somebody had approved.
MovesAreSound ==
  \A m \in moves : /\ m.next # "draft"
                   /\ m.next \in Later => claim.approvedBy # NoOne

\* An approved claim, a claim beyond it and a claim with a voucher have an
\* approver on record.
ApproverIsRecorded ==
  /\ claim.status \in Later \cup {"approved"} => claim.approvedBy # NoOne
  /\ paidBy # NoVoucher => claim.approvedBy # NoOne

IInv ==
  /\ ClaimTyped
  /\ VoucherTyped
  /\ MovesAreSound
  /\ ApproverIsRecorded
  /\ NobodySignsTheirOwnClaim
  /\ ClaimHasOneVoucher
  /\ IssuedHasItems

-----------------------------------------------------------------------------
\* What the allowed transitions lead to: never back to draft, and to a later
\* status only from approved or from a later one.
LEMMA AllowedIsSound ==
  ASSUME NEW s \in ClaimStatus, NEW next \in Allowed[s]
  PROVE  /\ next \in ClaimStatus
         /\ next # "draft"
         /\ next \in Later => s \in Later \cup {"approved"}
BY DEF Allowed, ClaimStatus, Later

\* The sum of the lines is a natural number, as there are finitely many lines.
LEMMA GrossIsNatural == Gross \in Nat
<1>1. IsFiniteSet(1..MaxAmount)
  BY ClaimsAssumption, FS_Interval
<1>2. IsFiniteSet(Line \X (1..MaxAmount))
  BY <1>1, ClaimsAssumption, FS_Product
<1> QED BY <1>2, FS_Subset, FS_CardinalityType DEF Gross

\* The net amount lies between nothing and the gross amount.
LEMMA NetIsBounded == ClaimTyped => Gross \in Nat /\ Net \in 0..Gross
<1> SUFFICES ASSUME ClaimTyped PROVE Gross \in Nat /\ Net \in 0..Gross
  OBVIOUS
<1>1. Gross \in Nat
  BY GrossIsNatural
<1>2. advance \in Nat
  BY ClaimsAssumption DEF ClaimTyped
<1>3. QED
  BY <1>1, <1>2 DEF Net

\* The conjuncts of the type invariant are those of the two halves.
LEMMA TypedIsTypeOK == ClaimTyped /\ VoucherTyped => DisbursementTypeOK
BY NetIsBounded DEF ClaimTyped, VoucherTyped, DisbursementTypeOK

-----------------------------------------------------------------------------
(* The steps on the claim *)

\* What a step on the claim keeps, stated for one step at a time: the types,
\* the approver, the independence of the signatures and the soundness of the
\* requests under way.
ClaimKept ==
  /\ ClaimTyped'
  /\ MovesAreSound'
  /\ claim.approvedBy # NoOne => claim'.approvedBy # NoOne
  /\ claim'.status \in Later \cup {"approved"} => claim'.approvedBy # NoOne
  /\ NobodySignsTheirOwnClaim'

\* A step that leaves the claim's row and the status requests alone keeps
\* what they satisfy.
LEMMA SameClaim ==
  ASSUME IInv, claim' = claim, moves' \subseteq moves
  PROVE  /\ claim' \in ClaimRow /\ moves' \subseteq Move
         /\ MovesAreSound'
         /\ claim.approvedBy # NoOne => claim'.approvedBy # NoOne
         /\ claim'.status \in Later \cup {"approved"} => claim'.approvedBy # NoOne
         /\ NobodySignsTheirOwnClaim'
BY DEF IInv, ClaimTyped, MovesAreSound, ApproverIsRecorded,
       NobodySignsTheirOwnClaim

LEMMA ReadForMoveKeeps ==
  ASSUME IInv, NEW u \in User, NEW next \in ClaimStatus, ReadForMove(u, next)
  PROVE  ClaimKept
<1> DEFINE new == [user |-> u, next |-> next,
                   step |-> IF next = "submitted" THEN "number" ELSE "update"]
<1>1. /\ moves' = moves \cup {new}
      /\ UNCHANGED <<claim, lines, advance, saves>>
  BY DEF ReadForMove
<1>2. claim \in ClaimRow /\ claim.status \in ClaimStatus
  BY DEF IInv, ClaimTyped, ClaimRow
<1>3. /\ next # "draft"
      /\ next \in Later => claim.approvedBy # NoOne
  BY <1>2, AllowedIsSound DEF ReadForMove, IInv, ApproverIsRecorded
<1>4. new \in Move
  BY DEF Move
<1>5. new.next = next
  OBVIOUS
<1> HIDE DEF new
<1>6. MovesAreSound'
  BY <1>1, <1>3, <1>5 DEF IInv, MovesAreSound
<1>7. ClaimTyped'
  BY <1>1, <1>4 DEF IInv, ClaimTyped
<1>8. QED
  BY <1>1, <1>6, <1>7 DEF ClaimKept, IInv, ApproverIsRecorded,
     NobodySignsTheirOwnClaim

LEMMA NumberClaimKeeps ==
  ASSUME IInv, NEW m \in moves, NumberClaim(m)
  PROVE  ClaimKept
<1>1. claim \in ClaimRow /\ m \in Move /\ moves \subseteq Move
  BY DEF IInv, ClaimTyped
<1>2. claim' \in {claim, [claim EXCEPT !.numbered = TRUE]}
  BY DEF NumberClaim
<1>3. /\ claim' \in ClaimRow
      /\ claim'.status = claim.status
      /\ claim'.claimant = claim.claimant
      /\ claim'.checkedBy = claim.checkedBy
      /\ claim'.approvedBy = claim.approvedBy
  BY <1>1, <1>2 DEF ClaimRow
<1>4. moves' \subseteq moves \cup {[m EXCEPT !.step = "update"]}
  BY DEF NumberClaim
<1>5. /\ [m EXCEPT !.step = "update"] \in Move
      /\ [m EXCEPT !.step = "update"].next = m.next
  BY <1>1 DEF Move
<1>6. MovesAreSound'
  BY <1>3, <1>4, <1>5 DEF IInv, MovesAreSound
<1>7. ClaimTyped'
  BY <1>1, <1>3, <1>4, <1>5 DEF IInv, ClaimTyped, NumberClaim
<1>8. QED
  BY <1>3, <1>6, <1>7 DEF ClaimKept, IInv, ApproverIsRecorded,
     NobodySignsTheirOwnClaim

LEMMA UpdateStatusKeeps ==
  ASSUME IInv, NEW m \in moves, UpdateStatus(m)
  PROVE  ClaimKept
<1>1. /\ claim \in ClaimRow /\ m \in Move
      /\ moves' \subseteq moves
      /\ UNCHANGED <<lines, advance, saves>>
  BY DEF IInv, ClaimTyped, UpdateStatus
<1>2. CASE claim' = claim
  BY <1>1, <1>2, SameClaim DEF ClaimKept, IInv, ClaimTyped
<1>3. CASE MayMove(m) /\ claim' = Moved(m)
  <2>1. /\ claim' \in ClaimRow
        /\ claim'.status = m.next
        /\ claim'.claimant = claim.claimant
        /\ claim'.approvedBy =
             IF m.next = "approved" THEN m.user ELSE claim.approvedBy
    BY <1>1, <1>3 DEF Moved, ClaimRow, Move, Claimant
  <2>2. m.user \in User /\ m.user # NoOne
    BY <1>1, ClaimsAssumption DEF Move
  <2>3. claim.approvedBy # NoOne => claim'.approvedBy # NoOne
    BY <2>1, <2>2
  <2>4. claim'.status \in Later \cup {"approved"} => claim'.approvedBy # NoOne
    BY <2>1, <2>2 DEF IInv, MovesAreSound
  <2>5. NobodySignsTheirOwnClaim'
    BY <1>3 DEF MayMove, Independent, NobodySignsTheirOwnClaim
  <2>6. MovesAreSound'
    BY <1>1, <2>3 DEF IInv, MovesAreSound
  <2>7. ClaimTyped'
    BY <1>1, <2>1 DEF IInv, ClaimTyped
  <2>8. QED
    BY <2>3, <2>4, <2>5, <2>6, <2>7 DEF ClaimKept
<1>4. QED
  BY <1>2, <1>3 DEF UpdateStatus

LEMMA SaveHeaderKeeps ==
  ASSUME IInv, NEW u \in User, NEW c \in Claimant, NEW form \in FormLines,
         NEW adv \in 0..MaxAdvance, SaveHeader(u, c, form, adv)
  PROVE  ClaimKept
<1>1. /\ claim' = [claim EXCEPT !.claimant = c]
      /\ Independent(claim')
      /\ UNCHANGED <<lines, advance, moves>>
  BY DEF SaveHeader
<1>2. claim \in ClaimRow
  BY DEF IInv, ClaimTyped
<1>3. /\ claim' \in ClaimRow
      /\ claim'.status = claim.status
      /\ claim'.approvedBy = claim.approvedBy
  BY <1>1, <1>2 DEF ClaimRow
<1>4. [user |-> u, form |-> form, advance |-> adv, step |-> "delete"] \in Save
  BY DEF Save
<1>5. ClaimTyped'
  BY <1>1, <1>3, <1>4 DEF IInv, ClaimTyped, SaveHeader
<1>6. MovesAreSound'
  BY <1>1, <1>3 DEF IInv, MovesAreSound
<1>7. NobodySignsTheirOwnClaim'
  BY <1>1 DEF Independent, NobodySignsTheirOwnClaim
<1>8. QED
  BY <1>3, <1>5, <1>6, <1>7 DEF ClaimKept, IInv, ApproverIsRecorded

\* A form that lost some of its lines is a form.
LEMMA PartOfForm ==
  ASSUME NEW s \in Save, NEW S \in SUBSET (DOMAIN s.form)
  PROVE  /\ [l \in S |-> s.form[l]] \in FormLines
         /\ \A l \in DOMAIN s.form : l \in Line /\ s.form[l] \in 0..MaxAmount
<1>1. s.form \in FormLines
  BY DEF Save
<1>2. PICK T \in SUBSET Line : s.form \in [T -> 0..MaxAmount]
  BY <1>1 DEF FormLines
<1>3. [l \in S |-> s.form[l]] \in [S -> 0..MaxAmount] /\ S \in SUBSET Line
  BY <1>2
<1>4. QED
  BY <1>2, <1>3 DEF FormLines

LEMMA SaveDeletesKeeps ==
  ASSUME IInv, NEW s \in saves, SaveDeletes(s)
  PROVE  ClaimKept
<1> DEFINE gone == {l \in DOMAIN s.form : s.form[l] = 0}
           kept == DOMAIN s.form \ gone
           next == [s EXCEPT !.form = [l \in kept |-> s.form[l]],
                             !.step = "lines"]
<1>1. /\ UNCHANGED <<claim, advance, moves>>
      /\ saves' = (saves \ {s}) \cup {next}
      /\ lines' \in {lines, [l \in Line |-> IF l \in gone THEN 0 ELSE lines[l]]}
  BY DEF SaveDeletes
<1>2. s \in Save /\ lines \in [Line -> 0..MaxAmount] /\ 0 \in 0..MaxAmount
  BY ClaimsAssumption DEF IInv, ClaimTyped
<1>3. [l \in kept |-> s.form[l]] \in FormLines
  <2>1. kept \in SUBSET (DOMAIN s.form)
    OBVIOUS
  <2>2. QED
    BY <1>2, <2>1, PartOfForm
<1>4. next \in Save
  BY <1>2, <1>3 DEF Save
<1>5. [l \in Line |-> IF l \in gone THEN 0 ELSE lines[l]] \in [Line -> 0..MaxAmount]
  BY <1>2
<1> HIDE DEF next, gone
<1>6. ClaimTyped'
  BY <1>1, <1>2, <1>4, <1>5, SameClaim DEF IInv, ClaimTyped
<1>7. QED
  BY <1>1, <1>6, SameClaim DEF ClaimKept

LEMMA SaveLineKeeps ==
  ASSUME IInv, NEW s \in saves, NEW l \in Line, SaveLine(s, l)
  PROVE  ClaimKept
<1> DEFINE rest == DOMAIN s.form \ {l}
           next == [s EXCEPT !.form = [k \in rest |-> s.form[k]],
                             !.step = IF rest = {} THEN "advance" ELSE "lines"]
<1>1. /\ UNCHANGED <<claim, advance, moves>>
      /\ saves' \subseteq saves \cup {next}
      /\ lines' \in {lines, [lines EXCEPT ![l] = s.form[l]]}
      /\ l \in DOMAIN s.form
  BY DEF SaveLine
<1>2. s \in Save /\ lines \in [Line -> 0..MaxAmount]
  BY DEF IInv, ClaimTyped
<1>3. /\ [k \in rest |-> s.form[k]] \in FormLines
      /\ s.form[l] \in 0..MaxAmount
  <2>1. rest \in SUBSET (DOMAIN s.form)
    OBVIOUS
  <2>2. QED
    BY <1>1, <1>2, <2>1, PartOfForm
<1>4. next \in Save
  BY <1>2, <1>3 DEF Save
<1>5. [lines EXCEPT ![l] = s.form[l]] \in [Line -> 0..MaxAmount]
  BY <1>2, <1>3
<1> HIDE DEF next, rest
<1>6. ClaimTyped'
  BY <1>1, <1>2, <1>4, <1>5, SameClaim DEF IInv, ClaimTyped
<1>7. QED
  BY <1>1, <1>6, SameClaim DEF ClaimKept

LEMMA SaveAdvanceKeeps ==
  ASSUME IInv, NEW s \in saves, SaveAdvance(s)
  PROVE  ClaimKept
<1>1. /\ UNCHANGED <<claim, lines, moves>>
      /\ saves' \subseteq saves
      /\ advance' \in {advance, s.advance}
  BY DEF SaveAdvance
<1>2. s.advance \in 0..MaxAdvance
  BY DEF IInv, ClaimTyped, Save
<1>3. ClaimTyped'
  BY <1>1, <1>2 DEF IInv, ClaimTyped
<1>4. QED
  BY <1>1, <1>3, SameClaim DEF ClaimKept

\* Every step on the claim keeps what the claim satisfies.
LEMMA ClaimsNextKeeps ==
  ASSUME IInv, ClaimsNext
  PROVE  ClaimKept
BY ReadForMoveKeeps, NumberClaimKeeps, UpdateStatusKeeps, SaveHeaderKeeps,
   SaveDeletesKeeps, SaveLineKeeps, SaveAdvanceKeeps DEF ClaimsNext

-----------------------------------------------------------------------------
(* The steps on the vouchers *)

\* What a step on the vouchers keeps.
VoucherKept == VoucherTyped' /\ ClaimHasOneVoucher' /\ IssuedHasItems'

\* How one voucher may come to differ: the new row is a row, is made from the
\* claim only where the claim names it, and is issued only with items.
Sound(v, row) ==
  /\ row \in VoucherRow
  /\ row.status # "none" /\ row.source = "claim" => paidBy' = v
  /\ row.status = "issued" => row.items > 0

\* A step that gives one voucher a sound row and takes no other voucher's link
\* to the claim keeps what the vouchers satisfy.
LEMMA OneVoucherChanges ==
  ASSUME IInv, NEW v \in Voucher, NEW row, Sound(v, row),
         vouchers' = [vouchers EXCEPT ![v] = row],
         paidBy' \in Voucher \cup {NoVoucher},
         \A w \in Voucher \ {v} : paidBy = w => paidBy' = w,
         generates' \subseteq
           [user : User, voucher : Voucher \cup {NoVoucher},
            step : {"voucher", "item"}]
  PROVE  VoucherKept
<1>1. vouchers \in [Voucher -> VoucherRow] /\ row \in VoucherRow
  BY DEF IInv, VoucherTyped, Sound
<1>2. /\ vouchers' \in [Voucher -> VoucherRow]
      /\ vouchers'[v] = row
      /\ \A w \in Voucher \ {v} : vouchers'[w] = vouchers[w]
  BY <1>1
<1>3. VoucherTyped'
  BY <1>2 DEF VoucherTyped
<1>4. ClaimHasOneVoucher'
  <2> SUFFICES ASSUME NEW w \in Voucher, vouchers'[w].status # "none",
                      vouchers'[w].source = "claim"
               PROVE  paidBy' = w
    BY DEF ClaimHasOneVoucher, Live
  <2>1. CASE w = v
    BY <1>2, <2>1 DEF Sound
  <2>2. CASE w # v
    BY <1>2, <2>2 DEF IInv, ClaimHasOneVoucher, Live
  <2>3. QED
    BY <2>1, <2>2
<1>5. IssuedHasItems'
  BY <1>2 DEF IInv, IssuedHasItems, Sound
<1>6. QED
  BY <1>3, <1>4, <1>5 DEF VoucherKept

\* A step that leaves the vouchers and the claim's link alone.
LEMMA SameVouchers ==
  ASSUME IInv, vouchers' = vouchers, paidBy' = paidBy,
         generates' \subseteq
           [user : User, voucher : Voucher \cup {NoVoucher},
            step : {"voucher", "item"}]
  PROVE  VoucherKept
BY DEF IInv, VoucherTyped, ClaimHasOneVoucher, Live, IssuedHasItems, VoucherKept

LEMMA PrepareClaimVoucherKeeps ==
  ASSUME IInv, NEW u \in User, NEW v \in Voucher, PrepareClaimVoucher(u, v)
  PROVE  VoucherKept /\ ClaimKept /\ claim.approvedBy # NoOne
<1> DEFINE row == [status |-> "draft", source |-> "claim", total |-> Net,
                   items |-> Gross, bill |-> FALSE]
<1>1. /\ claim.status = "approved" /\ paidBy = NoVoucher
      /\ claim' = [claim EXCEPT !.status = "payment_prepared"]
      /\ Independent(claim')
      /\ vouchers' = [vouchers EXCEPT ![v] = row]
      /\ paidBy' = v
      /\ UNCHANGED <<lines, advance, moves, saves, generates>>
  BY DEF PrepareClaimVoucher, MayPrepare
<1>2. Gross \in Nat /\ Net \in Nat
  BY NetIsBounded DEF IInv
<1>3. row \in VoucherRow
  BY <1>2 DEF VoucherRow
<1>4. Sound(v, row)
  BY <1>1, <1>3 DEF Sound
<1>5. VoucherKept
  <2>1. \A w \in Voucher \ {v} : paidBy = w => paidBy' = w
    BY <1>1, DisbursementAssumption
  <2>2. generates' \subseteq [user : User, voucher : Voucher \cup {NoVoucher},
                              step : {"voucher", "item"}]
    BY <1>1 DEF IInv, VoucherTyped
  <2> HIDE DEF row
  <2>3. QED
    BY <1>1, <1>4, <2>1, <2>2, OneVoucherChanges
<1>6. claim.approvedBy # NoOne
  BY <1>1 DEF IInv, ApproverIsRecorded
<1>7. claim \in ClaimRow
  BY DEF IInv, ClaimTyped
<1>8. claim' \in ClaimRow /\ claim'.approvedBy = claim.approvedBy
  BY <1>1, <1>7 DEF ClaimRow, ClaimStatus
<1>9. ClaimTyped' /\ MovesAreSound'
  BY <1>1, <1>8 DEF IInv, ClaimTyped, MovesAreSound
<1>10. NobodySignsTheirOwnClaim'
  BY <1>1 DEF Independent, NobodySignsTheirOwnClaim
<1>11. QED
  BY <1>5, <1>6, <1>8, <1>9, <1>10 DEF ClaimKept

\* The form's payload on a row keeps its source and is a draft.
LEMMA FormVoucherIsDraft ==
  ASSUME NEW old \in VoucherRow, NEW total \in Nat, NEW bill \in BOOLEAN
  PROVE  /\ FormVoucher(old, total, bill) \in VoucherRow
         /\ FormVoucher(old, total, bill).status = "draft"
         /\ FormVoucher(old, total, bill).source = old.source
BY DEF FormVoucher, VoucherRow

LEMMA NoRowIsRow == NoRow \in VoucherRow /\ NoRow.source = "other"
BY DEF NoRow, VoucherRow

LEMMA CreateVoucherKeeps ==
  ASSUME IInv, NEW u \in User, NEW v \in Voucher, NEW total \in FormTotal,
         CreateVoucher(u, v, total)
  PROVE  VoucherKept
<1>1. PICK bill \in BOOLEAN :
         vouchers' = [vouchers EXCEPT ![v] = FormVoucher(NoRow, total, bill)]
  BY DEF CreateVoucher
<1>2. UNCHANGED <<paidBy, generates>>
  BY DEF CreateVoucher
<1>3. total \in Nat
  BY DisbursementAssumption
<1>4. Sound(v, FormVoucher(NoRow, total, bill))
  BY <1>3, NoRowIsRow, FormVoucherIsDraft DEF Sound
<1>5. QED
  BY <1>1, <1>2, <1>4, OneVoucherChanges DEF IInv, VoucherTyped

LEMMA EditVoucherKeeps ==
  ASSUME IInv, NEW u \in User, NEW v \in Voucher,
         NEW total \in FormTotal \cup {vouchers[v].items},
         EditVoucher(u, v, total)
  PROVE  VoucherKept
<1> DEFINE row == FormVoucher(vouchers[v], total, vouchers[v].bill)
<1>1. vouchers \in [Voucher -> VoucherRow] /\ vouchers[v] \in VoucherRow
  BY DEF IInv, VoucherTyped
<1>2. vouchers' = [vouchers EXCEPT ![v] = row]
  BY <1>1 DEF EditVoucher
<1>3. UNCHANGED <<paidBy, generates>> /\ vouchers[v].status = "draft"
  BY DEF EditVoucher
<1>4. total \in Nat /\ vouchers[v].bill \in BOOLEAN
  BY <1>1, DisbursementAssumption DEF VoucherRow
<1>5. row \in VoucherRow /\ row.status = "draft" /\ row.source = vouchers[v].source
  BY <1>1, <1>4, FormVoucherIsDraft
<1> HIDE DEF row
<1>6. Sound(v, row)
  BY <1>3, <1>5 DEF Sound, IInv, ClaimHasOneVoucher, Live
<1>7. QED
  BY <1>2, <1>3, <1>6, OneVoucherChanges DEF IInv, VoucherTyped

LEMMA IssueVoucherKeeps ==
  ASSUME IInv, NEW u \in User, NEW v \in Voucher, IssueVoucher(u, v)
  PROVE  VoucherKept
<1> DEFINE row == [vouchers[v] EXCEPT !.status = "issued"]
<1>1. vouchers[v] \in VoucherRow /\ vouchers \in [Voucher -> VoucherRow]
  BY DEF IInv, VoucherTyped
<1>2. /\ vouchers' = [vouchers EXCEPT ![v] = row]
      /\ UNCHANGED <<paidBy, generates>>
      /\ vouchers[v].status = "draft" /\ vouchers[v].items > 0
  BY <1>1 DEF IssueVoucher, MayIssue
<1>3. /\ row \in VoucherRow /\ row.status = "issued"
      /\ row.source = vouchers[v].source /\ row.items = vouchers[v].items
  BY <1>1 DEF VoucherRow
<1> HIDE DEF row
<1>4. Sound(v, row)
  BY <1>2, <1>3 DEF Sound, IInv, ClaimHasOneVoucher, Live
<1>5. QED
  BY <1>2, <1>4, OneVoucherChanges DEF IInv, VoucherTyped

LEMMA VoidVoucherKeeps ==
  ASSUME IInv, NEW u \in User, NEW v \in Voucher, VoidVoucher(u, v)
  PROVE  VoucherKept
<1> DEFINE row == [vouchers[v] EXCEPT !.status = "cancelled"]
<1>1. vouchers[v] \in VoucherRow /\ vouchers \in [Voucher -> VoucherRow]
  BY DEF IInv, VoucherTyped
<1>2. /\ vouchers' = [vouchers EXCEPT ![v] = row]
      /\ UNCHANGED <<paidBy, generates>>
      /\ vouchers[v].status = "issued"
  BY <1>1 DEF VoidVoucher
<1>3. /\ row \in VoucherRow /\ row.status = "cancelled"
      /\ row.source = vouchers[v].source
  BY <1>1 DEF VoucherRow
<1> HIDE DEF row
<1>4. Sound(v, row)
  BY <1>2, <1>3 DEF Sound, IInv, ClaimHasOneVoucher, Live
<1>5. QED
  BY <1>2, <1>4, OneVoucherChanges DEF IInv, VoucherTyped

LEMMA DeleteVoucherKeeps ==
  ASSUME IInv, NEW u \in User, NEW v \in Voucher, DeleteVoucher(u, v)
  PROVE  VoucherKept /\ (paidBy' # NoVoucher => paidBy # NoVoucher)
<1>1. /\ vouchers' = [vouchers EXCEPT ![v] = NoRow]
      /\ paidBy' = IF paidBy = v THEN NoVoucher ELSE paidBy
      /\ generates' = generates
  BY DEF DeleteVoucher
<1>2. paidBy' \in Voucher \cup {NoVoucher}
  BY <1>1 DEF IInv, VoucherTyped
<1>3. \A w \in Voucher \ {v} : paidBy = w => paidBy' = w
  BY <1>1
<1>4. Sound(v, NoRow)
  BY NoRowIsRow DEF Sound, NoRow
<1>5. VoucherKept
  BY <1>1, <1>2, <1>3, <1>4, OneVoucherChanges DEF IInv, VoucherTyped
<1>6. QED
  BY <1>1, <1>5

LEMMA InsertVoucherKeeps ==
  ASSUME IInv, NEW g \in generates, NEW v \in Voucher, InsertVoucher(g, v)
  PROVE  VoucherKept
<1> DEFINE row == [status |-> "draft", source |-> "other",
                   total |-> BillAmount, items |-> 0, bill |-> FALSE]
           next == [g EXCEPT !.voucher = v, !.step = "item"]
<1>1. g \in [user : User, voucher : Voucher \cup {NoVoucher},
             step : {"voucher", "item"}]
  BY DEF IInv, VoucherTyped
<1>2. next \in [user : User, voucher : Voucher \cup {NoVoucher},
                step : {"voucher", "item"}]
  BY <1>1
<1>3. Sound(v, row)
  BY DisbursementAssumption DEF Sound, VoucherRow
<1>4. /\ paidBy' = paidBy
      /\ \/ /\ vouchers' = [vouchers EXCEPT ![v] = row]
            /\ generates' = (generates \ {g}) \cup {next}
         \/ vouchers' = vouchers /\ generates' = generates \ {g}
  BY DEF InsertVoucher
<1> HIDE DEF row, next
<1>5. /\ paidBy' \in Voucher \cup {NoVoucher}
      /\ generates' \subseteq [user : User, voucher : Voucher \cup {NoVoucher},
                               step : {"voucher", "item"}]
  BY <1>2, <1>4 DEF IInv, VoucherTyped
<1>6. CASE vouchers' = [vouchers EXCEPT ![v] = row]
  BY <1>3, <1>4, <1>5, <1>6, OneVoucherChanges
<1>7. CASE vouchers' = vouchers
  BY <1>4, <1>5, <1>7, SameVouchers
<1>8. QED
  BY <1>4, <1>6, <1>7

\* The row of a voucher that takes the item of a generate request.
WithItem(row) == [row EXCEPT !.items = @ + BillAmount, !.bill = TRUE]

LEMMA WithItemIsRow ==
  ASSUME NEW row \in VoucherRow
  PROVE  /\ WithItem(row) \in VoucherRow
         /\ WithItem(row).status = row.status
         /\ WithItem(row).source = row.source
<1>1. row.items \in Nat
  BY DEF VoucherRow
<1>2. row.items + BillAmount \in Nat
  BY <1>1, DisbursementAssumption
<1>3. QED
  BY <1>2 DEF WithItem, VoucherRow

\* Outside the ids of the table nothing can be updated.
LEMMA InsertItemIsOnAVoucher ==
  ASSUME IInv, NEW g \in generates, InsertItem(g)
  PROVE  \/ vouchers' = vouchers
         \/ /\ g.voucher \in Voucher
            /\ vouchers[g.voucher].status = "draft"
            /\ vouchers' = [vouchers EXCEPT
                 ![g.voucher] = WithItem(vouchers[g.voucher])]
<1>1. /\ g.voucher \in Voucher \cup {NoVoucher}
      /\ vouchers \in [Voucher -> VoucherRow]
  BY DEF IInv, VoucherTyped
<1>2. CASE g.voucher \in Voucher
  BY <1>1, <1>2 DEF InsertItem, MayInsertItem, WithItem, VoucherRow
<1>3. CASE g.voucher \notin Voucher
  BY <1>1, <1>3 DEF InsertItem
<1>4. QED
  BY <1>2, <1>3

LEMMA InsertItemKeeps ==
  ASSUME IInv, NEW g \in generates, InsertItem(g)
  PROVE  VoucherKept
<1>1. /\ paidBy' = paidBy /\ paidBy' \in Voucher \cup {NoVoucher}
      /\ generates' \subseteq [user : User, voucher : Voucher \cup {NoVoucher},
                               step : {"voucher", "item"}]
  BY DEF InsertItem, IInv, VoucherTyped
<1>2. CASE vouchers' = vouchers
  BY <1>1, <1>2, SameVouchers
<1>3. CASE /\ g.voucher \in Voucher
           /\ vouchers[g.voucher].status = "draft"
           /\ vouchers' = [vouchers EXCEPT
                ![g.voucher] = WithItem(vouchers[g.voucher])]
  <2>1. vouchers[g.voucher] \in VoucherRow
    BY <1>3 DEF IInv, VoucherTyped
  <2>2. /\ WithItem(vouchers[g.voucher]) \in VoucherRow
        /\ WithItem(vouchers[g.voucher]).status = "draft"
        /\ WithItem(vouchers[g.voucher]).source = vouchers[g.voucher].source
    BY <1>3, <2>1, WithItemIsRow
  <2>3. Sound(g.voucher, WithItem(vouchers[g.voucher]))
    BY <1>1, <1>3, <2>2 DEF Sound, IInv, ClaimHasOneVoucher, Live
  <2>4. QED
    BY <1>1, <1>3, <2>3, OneVoucherChanges
<1>4. QED
  BY <1>2, <1>3, InsertItemIsOnAVoucher

-----------------------------------------------------------------------------
(* The invariant and its consequences *)

\* The steps on a voucher that leave the claim alone.
VoucherOnly ==
  \/ \E u \in User, v \in Voucher, t \in FormTotal : CreateVoucher(u, v, t)
  \/ \E u \in User, v \in Voucher :
        \E t \in FormTotal \cup {vouchers[v].items} : EditVoucher(u, v, t)
  \/ \E u \in User, v \in Voucher : IssueVoucher(u, v)
  \/ \E u \in User, v \in Voucher : DeleteVoucher(u, v)
  \/ \E u \in User, v \in Voucher : VoidVoucher(u, v)
  \/ \E u \in User : StartGenerate(u)
  \/ \E g \in generates, v \in Voucher : InsertVoucher(g, v)
  \/ \E g \in generates : InsertItem(g)

LEMMA StartGenerateKeeps ==
  ASSUME IInv, NEW u \in User, StartGenerate(u)
  PROVE  VoucherKept
<1>1. generates' \subseteq [user : User, voucher : Voucher \cup {NoVoucher},
                            step : {"voucher", "item"}]
  BY DEF StartGenerate, IInv, VoucherTyped
<1>2. QED
  BY <1>1, SameVouchers DEF StartGenerate

LEMMA VoucherOnlyKeeps ==
  ASSUME IInv, VoucherOnly
  PROVE  /\ VoucherKept
         /\ UNCHANGED claimVars
         /\ paidBy' # NoVoucher => paidBy # NoVoucher
<1>1. VoucherKept
  BY CreateVoucherKeeps, EditVoucherKeeps, IssueVoucherKeeps,
     DeleteVoucherKeeps, VoidVoucherKeeps, StartGenerateKeeps,
     InsertVoucherKeeps, InsertItemKeeps DEF VoucherOnly
<1>2. UNCHANGED claimVars
  BY DEF VoucherOnly, CreateVoucher, EditVoucher, IssueVoucher, DeleteVoucher,
         VoidVoucher, StartGenerate, InsertVoucher, InsertItem
<1>3. paidBy' # NoVoucher => paidBy # NoVoucher
  BY DEF VoucherOnly, CreateVoucher, EditVoucher, IssueVoucher, DeleteVoucher,
         VoidVoucher, StartGenerate, InsertVoucher, InsertItem
<1>4. QED
  BY <1>1, <1>2, <1>3

\* The claim starts as an empty draft, without a voucher.
LEMMA IInvInit == DisbursementInit => IInv
<1> SUFFICES ASSUME DisbursementInit PROVE IInv
  OBVIOUS
<1>1. /\ claim.status = "draft" /\ claim.claimant = NoOne
      /\ claim.checkedBy = NoOne /\ claim.approvedBy = NoOne
      /\ moves = {} /\ saves = {} /\ generates = {}
      /\ vouchers = [v \in Voucher |-> NoRow] /\ paidBy = NoVoucher
  BY DEF DisbursementInit, ClaimsInit
<1>2. ClaimTyped
  BY ClaimsAssumption DEF DisbursementInit, ClaimsInit, ClaimTyped, ClaimRow,
     ClaimStatus, Claimant
<1>3. VoucherTyped
  BY <1>1, NoRowIsRow DEF VoucherTyped
<1>4. MovesAreSound /\ ApproverIsRecorded /\ NobodySignsTheirOwnClaim
  BY <1>1 DEF MovesAreSound, ApproverIsRecorded, NobodySignsTheirOwnClaim, Later
<1>5. ClaimHasOneVoucher /\ IssuedHasItems
  BY <1>1 DEF ClaimHasOneVoucher, Live, IssuedHasItems, NoRow
<1>6. QED
  BY <1>2, <1>3, <1>4, <1>5 DEF IInv

\* Every step keeps the invariant.
LEMMA IInvNext == IInv /\ [DisbursementNext]_vars => IInv'
<1> SUFFICES ASSUME IInv, [DisbursementNext]_vars PROVE IInv'
  OBVIOUS
<1>1. CASE ClaimStep
  <2>1. ClaimKept /\ UNCHANGED <<vouchers, paidBy, generates>>
    BY <1>1, ClaimsNextKeeps DEF ClaimStep
  <2>2. VoucherKept
    BY <2>1, SameVouchers DEF IInv, VoucherTyped
  <2>3. ApproverIsRecorded'
    BY <2>1 DEF ClaimKept, IInv, ApproverIsRecorded
  <2>4. QED
    BY <2>1, <2>2, <2>3 DEF ClaimKept, VoucherKept, IInv
<1>2. CASE \E u \in User, v \in Voucher : PrepareClaimVoucher(u, v)
  <2>1. VoucherKept /\ ClaimKept /\ claim.approvedBy # NoOne
    BY <1>2, PrepareClaimVoucherKeeps
  <2>2. ApproverIsRecorded'
    BY <2>1 DEF ClaimKept, ApproverIsRecorded
  <2>3. QED
    BY <2>1, <2>2 DEF ClaimKept, VoucherKept, IInv
<1>3. CASE VoucherOnly
  <2>1. /\ VoucherKept
        /\ UNCHANGED <<claim, lines, advance, moves, saves>>
        /\ paidBy' # NoVoucher => paidBy # NoVoucher
    BY <1>3, VoucherOnlyKeeps DEF claimVars
  <2>2. ClaimTyped' /\ MovesAreSound' /\ NobodySignsTheirOwnClaim'
    BY <2>1 DEF IInv, ClaimTyped, MovesAreSound, NobodySignsTheirOwnClaim
  <2>3. ApproverIsRecorded'
    BY <2>1 DEF IInv, ApproverIsRecorded
  <2>4. QED
    BY <2>1, <2>2, <2>3 DEF VoucherKept, IInv
<1>4. CASE UNCHANGED vars
  BY <1>4 DEF vars, claimVars, IInv, ClaimTyped, VoucherTyped, MovesAreSound,
     ApproverIsRecorded, NobodySignsTheirOwnClaim, ClaimHasOneVoucher, Live,
     IssuedHasItems
<1>5. QED
  BY <1>1, <1>2, <1>3, <1>4 DEF DisbursementNext, VoucherStep, VoucherOnly

LEMMA IInvHolds == DisbursementSpec => []IInv
BY IInvInit, IInvNext, PTL DEF DisbursementSpec

-----------------------------------------------------------------------------
(* The theorems *)

\* Every row, request and link of a claim and its vouchers has its type, and
\* the net amount lies between nothing and the gross amount.
THEOREM DisbursementTypeCorrect == DisbursementSpec => []DisbursementTypeOK
<1>1. IInv => DisbursementTypeOK
  BY TypedIsTypeOK DEF IInv
<1>2. QED
  BY <1>1, IInvHolds, PTL

\* Nobody checks or approves a claim of their own, however requests, approvals
\* and changes of the claimant interleave.
THEOREM NobodySignsTheirOwnClaimHolds ==
  DisbursementSpec => []NobodySignsTheirOwnClaim
<1>1. IInv => NobodySignsTheirOwnClaim
  BY DEF IInv
<1>2. QED
  BY <1>1, IInvHolds, PTL

\* Preparing, deleting and preparing again never leave two vouchers made from
\* one claim.
THEOREM ClaimHasOneVoucherHolds == DisbursementSpec => []ClaimHasOneVoucher
<1>1. IInv => ClaimHasOneVoucher
  BY DEF IInv
<1>2. QED
  BY <1>1, IInvHolds, PTL

\* While a claim has a voucher, somebody who is not its claimant has approved
\* it, even when a stale request has moved the claim backwards since.
THEOREM VoucheredClaimIsSignedHolds ==
  DisbursementSpec => []VoucheredClaimIsSigned
<1>1. IInv => VoucheredClaimIsSigned
  BY ClaimsAssumption DEF IInv, ApproverIsRecorded, NobodySignsTheirOwnClaim,
     VoucheredClaimIsSigned
<1>2. QED
  BY <1>1, IInvHolds, PTL

\* No voucher is issued without items.
THEOREM IssuedHasItemsHolds == DisbursementSpec => []IssuedHasItems
<1>1. IInv => IssuedHasItems
  BY DEF IInv
<1>2. QED
  BY <1>1, IInvHolds, PTL

\* The lines and the advance of a claim are written only while it is a draft.
LEMMA DetailIsOfADraft ==
  ASSUME DisbursementNext, claim.status # "draft"
  PROVE  lines' = lines /\ advance' = advance
<1>1. \A u : ~MayWriteDetail(u)
  BY DEF MayWriteDetail
<1>2. CASE ClaimStep
  BY <1>1, <1>2 DEF ClaimStep, ClaimsNext, ReadForMove, NumberClaim,
     UpdateStatus, SaveHeader, SaveDeletes, SaveLine, SaveAdvance
<1>3. CASE VoucherStep
  BY <1>3 DEF VoucherStep, claimVars, PrepareClaimVoucher, CreateVoucher,
     EditVoucher, IssueVoucher, DeleteVoucher, VoidVoucher, StartGenerate,
     InsertVoucher, InsertItem
<1>4. QED
  BY <1>2, <1>3 DEF DisbursementNext

\* A claim that is no draft never becomes one.
LEMMA NeverADraftAgain ==
  ASSUME IInv, DisbursementNext, claim.status # "draft"
  PROVE  claim'.status # "draft"
<1>1. claim \in ClaimRow
  BY DEF IInv, ClaimTyped
<1>2. CASE ClaimStep
  <2>1. ASSUME NEW m \in moves, UpdateStatus(m)
        PROVE  claim'.status # "draft"
    <3>1. m.next # "draft"
      BY DEF IInv, MovesAreSound
    <3>2. Moved(m).status = m.next
      BY <1>1 DEF Moved, ClaimRow
    <3>3. QED
      BY <2>1, <3>1, <3>2 DEF UpdateStatus
  <2>2. CASE \E m \in moves : UpdateStatus(m)
    BY <2>1, <2>2
  <2>3. CASE UNCHANGED claim
    BY <2>3
  <2>4. CASE \E m \in moves : NumberClaim(m)
    BY <1>1, <2>4 DEF NumberClaim, ClaimRow
  <2>5. CASE \E u \in User, c \in Claimant, form \in FormLines,
                adv \in 0..MaxAdvance : SaveHeader(u, c, form, adv)
    BY <1>1, <2>5 DEF SaveHeader, ClaimRow
  <2>6. QED
    BY <1>2, <2>2, <2>3, <2>4, <2>5 DEF ClaimStep, ClaimsNext, ReadForMove,
       SaveDeletes, SaveLine, SaveAdvance
<1>3. CASE \E u \in User, v \in Voucher : PrepareClaimVoucher(u, v)
  BY <1>1, <1>3 DEF PrepareClaimVoucher, ClaimRow
<1>4. CASE VoucherOnly
  BY <1>4, VoucherOnlyKeeps DEF claimVars
<1>5. QED
  BY <1>2, <1>3, <1>4 DEF DisbursementNext, VoucherStep, VoucherOnly

\* Once submitted a claim stays out of draft and its net amount stays what it
\* was, whatever saves and status requests were under way.
THEOREM SubmittedAmountIsFinalHolds == DisbursementSpec => SubmittedAmountIsFinal
<1>1. IInv /\ [DisbursementNext]_vars =>
        [claim.status # "draft" => claim'.status # "draft" /\ Net' = Net]_vars
  <2> SUFFICES ASSUME IInv, DisbursementNext, claim.status # "draft"
               PROVE  claim'.status # "draft" /\ Net' = Net
    OBVIOUS
  <2>1. claim'.status # "draft"
    BY NeverADraftAgain
  <2>2. Net' = Net
    BY DetailIsOfADraft DEF Net, Gross
  <2>3. QED
    BY <2>1, <2>2
<1>2. QED
  BY <1>1, IInvHolds, PTL DEF DisbursementSpec, SubmittedAmountIsFinal

\* An issued voucher keeps its total and items and can only be cancelled.
THEOREM IssuedVoucherIsFinalHolds == DisbursementSpec => IssuedVoucherIsFinal
<1> DEFINE Final(v) ==
      vouchers[v].status \in {"issued", "cancelled"} =>
        vouchers'[v] \in {vouchers[v],
                          [vouchers[v] EXCEPT !.status = "cancelled"]}
<1>1. IInv /\ [DisbursementNext]_vars => [\A v \in Voucher : Final(v)]_vars
  <2> SUFFICES ASSUME IInv, DisbursementNext, NEW v \in Voucher,
                      vouchers[v].status \in {"issued", "cancelled"}
               PROVE  vouchers'[v] \in {vouchers[v],
                        [vouchers[v] EXCEPT !.status = "cancelled"]}
    OBVIOUS
  <2>1. vouchers \in [Voucher -> VoucherRow]
    BY DEF IInv, VoucherTyped
  <2>2. CASE vouchers' = vouchers
    BY <2>2
  <2>3. ASSUME NEW w \in Voucher, NEW row,
               vouchers[w].status \in {"none", "draft"},
               vouchers' = [vouchers EXCEPT ![w] = row]
        PROVE  vouchers'[v] = vouchers[v]
    BY <2>1, <2>3
  <2>4. CASE \E u \in User, w \in Voucher : PrepareClaimVoucher(u, w)
    BY <2>3, <2>4 DEF PrepareClaimVoucher, Live
  <2>5. CASE \E u \in User, w \in Voucher, t \in FormTotal : CreateVoucher(u, w, t)
    BY <2>3, <2>5 DEF CreateVoucher, Live
  <2>6. CASE \E u \in User, w \in Voucher :
               \E t \in FormTotal \cup {vouchers[w].items} : EditVoucher(u, w, t)
    <3>1. PICK u \in User, w \in Voucher :
             \E t \in FormTotal \cup {vouchers[w].items} : EditVoucher(u, w, t)
      BY <2>6
    <3>2. vouchers[w].status = "draft"
      BY <3>1 DEF EditVoucher
    <3>3. \A x \in Voucher \ {w} : vouchers'[x] = vouchers[x]
      BY <2>1, <3>1 DEF EditVoucher
    <3>4. QED
      BY <3>2, <3>3
  <2>7. CASE \E u \in User, w \in Voucher : IssueVoucher(u, w)
    <3>1. PICK u \in User, w \in Voucher : IssueVoucher(u, w)
      BY <2>7
    <3>2. vouchers[w].status = "draft"
      BY <3>1 DEF IssueVoucher, MayIssue
    <3>3. \A x \in Voucher \ {w} : vouchers'[x] = vouchers[x]
      BY <2>1, <3>1 DEF IssueVoucher
    <3>4. QED
      BY <3>2, <3>3
  <2>8. CASE \E u \in User, w \in Voucher : DeleteVoucher(u, w)
    BY <2>3, <2>8 DEF DeleteVoucher
  <2>9. CASE \E u \in User, w \in Voucher : VoidVoucher(u, w)
    BY <2>1, <2>9 DEF VoidVoucher
  <2>10. CASE \E g \in generates, w \in Voucher : InsertVoucher(g, w)
    BY <2>2, <2>3, <2>10 DEF InsertVoucher, Live
  <2>11. CASE \E g \in generates : InsertItem(g)
    BY <2>2, <2>3, <2>11, InsertItemIsOnAVoucher
  <2>12. CASE ClaimStep \/ \E u \in User : StartGenerate(u)
    BY <2>2, <2>12 DEF ClaimStep, StartGenerate
  <2>13. QED
    BY <2>4, <2>5, <2>6, <2>7, <2>8, <2>9, <2>10, <2>11, <2>12
    DEF DisbursementNext, VoucherStep
<1>2. QED
  BY <1>1, IInvHolds, PTL DEF DisbursementSpec, IssuedVoucherIsFinal

-----------------------------------------------------------------------------
(* The staff logins *)

CreationFields == {"step", "login", "role", "ticks", "entities", "aal2"}
CreationTyped(c) ==
  c.step \in {"login", "profile", "grants", "access", "rollback"} =>
    DOMAIN c = CreationFields /\ c.login \in Login /\ c.role # "none"

PageFields == {"step", "login", "role", "active", "ticks", "entities", "aal2"}
PageTyped(f) ==
  /\ f.step # "closed" => DOMAIN f = PageFields /\ f.role # "none"
  /\ f.step = "closed" => f.login = NoLogin
  /\ f.step \in {"delete", "insert"} => f.aal2

\* A creation, a save at work on a login.
CreationOn(q, u) == Creating(q) /\ creations[q].login = u
PageOn(w, u) == Saving(w) /\ pages[w].login = u

Agrees(u) == \A e \in DOMAIN access[u] : access[u][e] = profiles[u]

\* A login being created has no entity rows yet.
CreationHolds(q, u) ==
  /\ access[u] = NoAccess
  /\ creations[q].step \in {"grants", "access"} =>
       profiles[u] = [role |-> creations[q].role, active |-> TRUE]

\* A save has written the profile it shows, or writes nothing at all.
PageHolds(w, u) ==
  /\ pages[w].aal2 =>
       /\ profiles[u] = [role |-> pages[w].role, active |-> pages[w].active]
       /\ pages[w].step = "insert" => access[u] = NoAccess
  /\ ~pages[w].aal2 => Agrees(u)

Idle(u) == /\ \A q \in CreateCall : ~CreationOn(q, u)
           /\ \A w \in StaffPage : ~PageOn(w, u)

Calm(u) ==
  u \notin unsettled =>
    /\ Idle(u) => Agrees(u)
    /\ \A q \in CreateCall : CreationOn(q, u) =>
         CreationHolds(q, u) /\ \A w \in StaffPage : ~PageOn(w, u)
    /\ \A w \in StaffPage : PageOn(w, u) =>
         PageHolds(w, u) /\ \A v \in StaffPage : PageOn(v, u) => v = w

StaffShape ==
  /\ DOMAIN profiles = Login /\ DOMAIN access = Login
  /\ DOMAIN creations = CreateCall /\ DOMAIN pages = StaffPage
  /\ pages = [w \in StaffPage |-> pages[w]]
  /\ \A q \in CreateCall : CreationTyped(creations[q])
  /\ \A w \in StaffPage : PageTyped(pages[w])

\* Whoever is at work on a login works on one that exists, and only one
\* creation does.
LoginsThere ==
  /\ \A u \in Login : profiles[u].role = "none" => profiles[u] = NoProfile
  /\ \A u \in Login : profiles[u] = NoProfile => access[u] = NoAccess
  /\ \A q \in CreateCall : Creating(q) => profiles[creations[q].login] # NoProfile
  /\ \A q, p \in CreateCall :
       Creating(q) /\ Creating(p) /\ creations[q].login = creations[p].login => q = p
  /\ \A w \in StaffPage :
       pages[w].login \in Login => profiles[pages[w].login] # NoProfile

StaffInv == StaffShape /\ LoginsThere /\ \A u \in Login : Calm(u)

LEMMA ProfileIsNotNone ==
  ASSUME NEW role, NEW active, role # "none"
  PROVE  [role |-> role, active |-> active] # NoProfile
         /\ [role |-> role, active |-> active].role # "none"
BY DEF NoProfile

LEMMA NoAccessIs == DOMAIN NoAccess = {}
BY DEF NoAccess, AccessRows

LEMMA NoAccessAgrees ==
  ASSUME NEW u, access[u] = NoAccess
  PROVE  Agrees(u)
BY NoAccessIs DEF Agrees

\* Nobody touches a login, and its workers stay where they are.
LEMMA CalmStays ==
  ASSUME NEW u \in Login, Calm(u),
         profiles'[u] = profiles[u], access'[u] = access[u],
         unsettled \subseteq unsettled',
         \A q \in CreateCall : /\ CreationOn(q, u)' <=> CreationOn(q, u)
                               /\ CreationOn(q, u) => creations'[q] = creations[q],
         \A w \in StaffPage : /\ PageOn(w, u)' <=> PageOn(w, u)
                              /\ PageOn(w, u) => pages'[w] = pages[w]
  PROVE  Calm(u)'
BY DEF Calm, Idle, Agrees, CreationHolds, PageHolds

\* A creation makes a step, on its login only.
LEMMA CreationMoves ==
  ASSUME StaffInv, NEW q \in CreateCall, NEW c, CreationTyped(c),
         Creating(q) \/ creations[q].step = "login",
         c.login = creations[q].login,
         creations' = [creations EXCEPT ![q] = c], pages' = pages,
         unsettled \subseteq unsettled',
         DOMAIN profiles' = Login, DOMAIN access' = Login,
         \A u \in Login \ {c.login} : profiles'[u] = profiles[u] /\ access'[u] = access[u],
         profiles'[c.login].role # "none", profiles'[c.login] # NoProfile,
         ~Creating(q) /\ c.step \in {"profile", "grants", "access", "rollback"} =>
           profiles[c.login] = NoProfile,
         Calm(c.login)'
  PROVE  StaffInv'
<1>1. c.login \in Login
  BY DEF StaffInv, StaffShape, CreationTyped, Creating
<1>2. /\ DOMAIN creations' = CreateCall /\ creations'[q] = c
      /\ \A p \in CreateCall \ {q} : creations'[p] = creations[p]
  BY DEF StaffInv, StaffShape
<1>3. StaffShape'
  BY <1>2 DEF StaffInv, StaffShape, CreationTyped, PageTyped
<1>4. \A p \in CreateCall \ {q} : Creating(p)' <=> Creating(p)
  BY <1>2 DEF Creating
<1>5. LoginsThere'
  <2>1. \A p \in CreateCall : Creating(p) => creations[p].login \in Login
    BY DEF StaffInv, StaffShape, CreationTyped, Creating
  <2>2. \A u \in Login : profiles'[u].role = "none" => profiles'[u] = NoProfile
    BY DEF StaffInv, LoginsThere
  <2>3. \A u \in Login : profiles'[u] = NoProfile => access'[u] = NoAccess
    BY DEF StaffInv, LoginsThere
  <2>4. \A p \in CreateCall : Creating(p)' => profiles'[creations'[p].login] # NoProfile
    BY <1>2, <1>4, <2>1 DEF StaffInv, LoginsThere
  <2>5. \A p \in CreateCall \ {q} :
          Creating(p) /\ creations[p].login = c.login => ~Creating(q)' 
    <3> SUFFICES ASSUME NEW p \in CreateCall \ {q}, Creating(p),
                        creations[p].login = c.login, Creating(q)'
                 PROVE  FALSE
      OBVIOUS
    <3>1. c.step \in {"profile", "grants", "access", "rollback"}
      BY <1>2 DEF Creating
    <3>2. CASE Creating(q)
      BY <3>2 DEF StaffInv, LoginsThere
    <3>3. CASE ~Creating(q)
      BY <3>1, <3>3 DEF StaffInv, LoginsThere
    <3>4. QED
      BY <3>2, <3>3
  <2>6. \A o, p \in CreateCall :
          Creating(o)' /\ Creating(p)' /\ creations'[o].login = creations'[p].login
            => o = p
    <3> SUFFICES ASSUME NEW o \in CreateCall, NEW p \in CreateCall, o # p,
                        Creating(o)', Creating(p)',
                        creations'[o].login = creations'[p].login
                 PROVE  FALSE
      OBVIOUS
    <3>1. CASE o # q /\ p # q
      BY <1>2, <1>4, <3>1 DEF StaffInv, LoginsThere
    <3>2. CASE o = q
      BY <1>2, <1>4, <2>5, <3>2
    <3>3. CASE p = q
      BY <1>2, <1>4, <2>5, <3>3
    <3>4. QED
      BY <3>1, <3>2, <3>3
  <2>7. \A w \in StaffPage :
          pages'[w].login \in Login => profiles'[pages'[w].login] # NoProfile
    BY DEF StaffInv, LoginsThere
  <2>8. QED
    BY <2>2, <2>3, <2>4, <2>6, <2>7 DEF LoginsThere
<1>6. ASSUME NEW u \in Login
      PROVE  Calm(u)'
  <2>1. CASE u = c.login
    BY <2>1
  <2>2. CASE u # c.login
    <3>1. \A p \in CreateCall : /\ CreationOn(p, u)' <=> CreationOn(p, u)
                                /\ CreationOn(p, u) => creations'[p] = creations[p]
      BY <1>2, <1>4, <2>2 DEF CreationOn
    <3>2. \A w \in StaffPage : /\ PageOn(w, u)' <=> PageOn(w, u)
                               /\ PageOn(w, u) => pages'[w] = pages[w]
      BY DEF PageOn, Saving
    <3>3. QED
      BY <2>2, <3>1, <3>2, CalmStays DEF StaffInv
  <2>3. QED
    BY <2>1, <2>2
<1>7. QED
  BY <1>3, <1>5, <1>6 DEF StaffInv

\* A creation changes before or after its work on a login.
LEMMA CreationAside ==
  ASSUME StaffInv, NEW q \in CreateCall, NEW c, CreationTyped(c), ~Creating(q),
         c.step \notin {"profile", "grants", "access", "rollback"},
         creations' = [creations EXCEPT ![q] = c],
         profiles' = profiles, access' = access, pages' = pages, unsettled' = unsettled
  PROVE  StaffInv'
<1>1. /\ DOMAIN creations' = CreateCall /\ creations'[q] = c
      /\ \A p \in CreateCall \ {q} : creations'[p] = creations[p]
  BY DEF StaffInv, StaffShape
<1>2. \A p \in CreateCall :
        /\ Creating(p)' <=> Creating(p)
        /\ Creating(p) => creations'[p] = creations[p]
  BY <1>1 DEF Creating
<1>3. StaffShape'
  BY <1>1 DEF StaffInv, StaffShape, CreationTyped, PageTyped
<1>4. LoginsThere'
  BY <1>2 DEF StaffInv, LoginsThere
<1>5. ASSUME NEW u \in Login
      PROVE  Calm(u)'
  <2>1. \A p \in CreateCall : /\ CreationOn(p, u)' <=> CreationOn(p, u)
                              /\ CreationOn(p, u) => creations'[p] = creations[p]
    BY <1>2 DEF CreationOn
  <2>2. \A w \in StaffPage : /\ PageOn(w, u)' <=> PageOn(w, u)
                             /\ PageOn(w, u) => pages'[w] = pages[w]
    BY DEF PageOn, Saving
  <2>3. QED
    BY <2>1, <2>2, CalmStays DEF StaffInv
<1>6. QED
  BY <1>3, <1>4, <1>5 DEF StaffInv

\* Who is creating a calm login is alone on it.
LEMMA CreationAlone ==
  ASSUME StaffInv, NEW q \in CreateCall, Creating(q)
  PROVE  /\ creations[q].login \in Login
         /\ DOMAIN creations[q] = CreationFields /\ creations[q].role # "none"
         /\ profiles[creations[q].login] # NoProfile
         /\ profiles[creations[q].login].role # "none"
         /\ \A p \in CreateCall : CreationOn(p, creations[q].login) => p = q
         /\ creations[q].login \notin unsettled =>
              /\ CreationHolds(q, creations[q].login)
              /\ \A w \in StaffPage : ~PageOn(w, creations[q].login)
<1>1. /\ creations[q].login \in Login
      /\ DOMAIN creations[q] = CreationFields /\ creations[q].role # "none"
  BY DEF StaffInv, StaffShape, CreationTyped, Creating
<1>2. /\ profiles[creations[q].login] # NoProfile
      /\ profiles[creations[q].login].role # "none"
      /\ \A p \in CreateCall : CreationOn(p, creations[q].login) => p = q
  BY <1>1 DEF StaffInv, LoginsThere, CreationOn
<1>3. creations[q].login \notin unsettled =>
        /\ CreationHolds(q, creations[q].login)
        /\ \A w \in StaffPage : ~PageOn(w, creations[q].login)
  BY <1>1 DEF StaffInv, Calm, CreationOn
<1>4. QED
  BY <1>1, <1>2, <1>3

\* What makes the login of one worker calm after its step.
LEMMA CreationCalm ==
  ASSUME NEW u \in Login, NEW q \in CreateCall,
         u \notin unsettled' =>
           /\ \A p \in CreateCall : CreationOn(p, u)' => p = q
           /\ \A w \in StaffPage : ~PageOn(w, u)'
           /\ IF CreationOn(q, u)' THEN CreationHolds(q, u)' ELSE Agrees(u)'
  PROVE  Calm(u)'
BY DEF Calm, Idle

\* A creation at work makes a step that takes no login away.
LEMMA CreationWorks ==
  ASSUME StaffInv, NEW q \in CreateCall, Creating(q), NEW step,
         NEW u, u = creations[q].login, NEW c, c = [creations[q] EXCEPT !.step = step],
         creations' = [creations EXCEPT ![q] = c], pages' = pages,
         unsettled \subseteq unsettled',
         DOMAIN profiles' = Login, DOMAIN access' = Login,
         \A v \in Login \ {u} : profiles'[v] = profiles[v] /\ access'[v] = access[v],
         profiles'[u].role # "none", profiles'[u] # NoProfile,
         u \notin unsettled' =>
           /\ step \in {"profile", "grants", "access", "rollback"} => access'[u] = NoAccess
           /\ step \in {"grants", "access"} =>
                profiles'[u] = [role |-> creations[q].role, active |-> TRUE]
           /\ step \notin {"profile", "grants", "access", "rollback"} => Agrees(u)'
  PROVE  StaffInv'
<1>1. /\ u \in Login
      /\ DOMAIN creations[q] = CreationFields /\ creations[q].role # "none"
      /\ \A p \in CreateCall : CreationOn(p, u) => p = q
      /\ u \notin unsettled => \A w \in StaffPage : ~PageOn(w, u)
  BY CreationAlone
<1>2. /\ c.step = step /\ c.login = u /\ c.role = creations[q].role
      /\ DOMAIN c = CreationFields
  BY <1>1 DEF CreationFields
<1>3. CreationTyped(c)
  BY <1>1, <1>2 DEF CreationTyped
<1>4. /\ DOMAIN creations' = CreateCall /\ creations'[q] = c
      /\ \A p \in CreateCall \ {q} : creations'[p] = creations[p]
  BY DEF StaffInv, StaffShape
<1>5. Calm(u)'
  <2>1. u \in Login
    BY <1>1
  <2>2. \A p \in CreateCall : CreationOn(p, u)' => p = q
    BY <1>1, <1>4 DEF CreationOn, Creating
  <2>3. u \notin unsettled' => \A w \in StaffPage : ~PageOn(w, u)'
    BY <1>1 DEF PageOn, Saving
  <2>4. CreationOn(q, u)' <=> step \in {"profile", "grants", "access", "rollback"}
    BY <1>2, <1>4 DEF CreationOn, Creating
  <2>5. CASE CreationOn(q, u)'
    <3>1. u \notin unsettled' => CreationHolds(q, u)'
      BY <1>2, <1>4, <2>4, <2>5 DEF CreationHolds
    <3>2. QED
      BY <2>1, <2>2, <2>3, <2>5, <3>1, CreationCalm
  <2>6. CASE ~CreationOn(q, u)'
    <3>1. u \notin unsettled' => Agrees(u)'
      BY <2>4, <2>6
    <3>2. QED
      BY <2>1, <2>2, <2>3, <2>6, <3>1, CreationCalm
  <2>7. QED
    BY <2>5, <2>6
<1>6. QED
  <2>1. c.login = creations[q].login
    BY <1>2
  <2>2. Calm(c.login)'
    BY <1>2, <1>5
  <2>3. \A v \in Login \ {c.login} : profiles'[v] = profiles[v] /\ access'[v] = access[v]
    BY <2>1
  <2>4. profiles'[c.login].role # "none" /\ profiles'[c.login] # NoProfile
    BY <2>1
  <2>5. QED
    BY <1>3, <2>1, <2>2, <2>3, <2>4, CreationMoves

\* Whose save is at work on a calm login is alone on it.
LEMMA PageAlone ==
  ASSUME StaffInv, NEW w \in StaffPage, Saving(w), NEW u \in Login,
         u = pages[w].login
  PROVE  /\ profiles[u] # NoProfile /\ profiles[u].role # "none"
         /\ u \notin unsettled =>
              /\ PageHolds(w, u)
              /\ \A v \in StaffPage : PageOn(v, u) => v = w
              /\ \A q \in CreateCall : ~CreationOn(q, u)
<1>1. profiles[u] # NoProfile /\ profiles[u].role # "none"
  BY DEF StaffInv, LoginsThere
<1>2. PageOn(w, u)
  BY DEF PageOn
<1>3. QED
  BY <1>1, <1>2 DEF StaffInv, Calm

\* A page makes a step that changes the login it shows, if any.
LEMMA PageShape ==
  ASSUME StaffInv, NEW w \in StaffPage, NEW g, PageTyped(g),
         pages' = [pages EXCEPT ![w] = g], creations' = creations,
         DOMAIN profiles' = Login, DOMAIN access' = Login,
         NEW L, \A u \in Login \ {L} : profiles'[u] = profiles[u] /\ access'[u] = access[u],
         L \in Login => profiles'[L].role # "none" /\ profiles'[L] # NoProfile,
         g.login \in Login => profiles[g.login] # NoProfile
  PROVE  StaffShape' /\ LoginsThere'
<1>1. /\ DOMAIN pages' = StaffPage /\ pages'[w] = g
      /\ \A v \in StaffPage \ {w} : pages'[v] = pages[v]
  BY DEF StaffInv, StaffShape
<1>2. StaffShape'
  BY <1>1 DEF StaffInv, StaffShape, CreationTyped, PageTyped
<1>3. \A u \in Login : profiles[u] # NoProfile => profiles'[u] # NoProfile
  OBVIOUS
<1>4. LoginsThere'
  <2>1. \A u \in Login : profiles'[u].role = "none" => profiles'[u] = NoProfile
    BY DEF StaffInv, LoginsThere
  <2>2. \A u \in Login : profiles'[u] = NoProfile => access'[u] = NoAccess
    BY DEF StaffInv, LoginsThere
  <2>3. \A q \in CreateCall : Creating(q) => creations[q].login \in Login
    BY DEF StaffInv, StaffShape, CreationTyped, Creating
  <2>4. \A q \in CreateCall : Creating(q)' => profiles'[creations'[q].login] # NoProfile
    BY <1>3, <2>3 DEF StaffInv, LoginsThere, Creating
  <2>5. \A q, p \in CreateCall :
          Creating(q)' /\ Creating(p)' /\ creations'[q].login = creations'[p].login => q = p
    BY DEF StaffInv, LoginsThere, Creating
  <2>6. \A v \in StaffPage :
          pages'[v].login \in Login => profiles'[pages'[v].login] # NoProfile
    BY <1>1, <1>3 DEF StaffInv, LoginsThere
  <2>7. QED
    BY <2>1, <2>2, <2>4, <2>5, <2>6 DEF LoginsThere
<1>5. QED
  BY <1>2, <1>4

\* ... its logins stay calm where it was not and is not at work ...
LEMMA PageElsewhere ==
  ASSUME StaffInv, NEW w \in StaffPage, NEW g, NEW u \in Login,
         pages' = [pages EXCEPT ![w] = g], creations' = creations,
         unsettled \subseteq unsettled',
         profiles'[u] = profiles[u], access'[u] = access[u],
         ~PageOn(w, u), g.step \in {"grants", "delete", "insert"} => g.login # u
  PROVE  Calm(u)'
<1>1. /\ DOMAIN pages' = StaffPage /\ pages'[w] = g
      /\ \A v \in StaffPage \ {w} : pages'[v] = pages[v]
  BY DEF StaffInv, StaffShape
<1>2. \A q \in CreateCall : /\ CreationOn(q, u)' <=> CreationOn(q, u)
                            /\ CreationOn(q, u) => creations'[q] = creations[q]
  BY DEF CreationOn, Creating
<1>3. \A v \in StaffPage : /\ PageOn(v, u)' <=> PageOn(v, u)
                           /\ PageOn(v, u) => pages'[v] = pages[v]
  BY <1>1 DEF PageOn, Saving
<1>4. QED
  BY <1>2, <1>3, CalmStays DEF StaffInv

\* ... and so does the one on which its work ends ...
LEMMA PageEnds ==
  ASSUME StaffInv, NEW w \in StaffPage, NEW g, PageTyped(g),
         g.step \notin {"grants", "delete", "insert"},
         pages' = [pages EXCEPT ![w] = g], creations' = creations,
         unsettled \subseteq unsettled',
         DOMAIN profiles' = Login, DOMAIN access' = Login,
         NEW L, L = pages[w].login,
         \A u \in Login \ {L} : profiles'[u] = profiles[u] /\ access'[u] = access[u],
         L \in Login => profiles'[L].role # "none" /\ profiles'[L] # NoProfile,
         L \in Login => profiles[L] # NoProfile, g.login = L \/ g.login \notin Login,
         L \in Login /\ L \notin unsettled' =>
           /\ \A v \in StaffPage \ {w} : ~PageOn(v, L)
           /\ \A q \in CreateCall : ~CreationOn(q, L)
           /\ Agrees(L)'
  PROVE  StaffInv'
<1>1. StaffShape' /\ LoginsThere'
  <2>1. g.login \in Login => profiles[g.login] # NoProfile
    OBVIOUS
  <2>2. QED
    BY <2>1, PageShape
<1>2. /\ DOMAIN pages' = StaffPage /\ pages'[w] = g
      /\ \A v \in StaffPage \ {w} : pages'[v] = pages[v]
  BY DEF StaffInv, StaffShape
<1>3. ASSUME NEW u \in Login, u # L
      PROVE  Calm(u)'
  BY <1>3, PageElsewhere DEF PageOn
<1>4. ASSUME L \in Login
      PROVE  Calm(L)'
  <2>1. L \notin unsettled' =>
          /\ \A v \in StaffPage : ~PageOn(v, L)'
          /\ \A q \in CreateCall : ~CreationOn(q, L)'
    BY <1>2, <1>4 DEF PageOn, Saving, CreationOn, Creating
  <2>2. QED
    BY <1>4, <2>1 DEF Calm, Idle
<1>5. QED
  BY <1>1, <1>3, <1>4 DEF StaffInv

\* ... or goes on.
LEMMA PageGoesOn ==
  ASSUME StaffInv, NEW w \in StaffPage, NEW g, PageTyped(g),
         g.step \in {"grants", "delete", "insert"},
         pages' = [pages EXCEPT ![w] = g], creations' = creations,
         unsettled \subseteq unsettled',
         DOMAIN profiles' = Login, DOMAIN access' = Login,
         NEW L, L = pages[w].login, g.login = L,
         \A u \in Login \ {L} : profiles'[u] = profiles[u] /\ access'[u] = access[u],
         L \in Login => profiles[L] # NoProfile,
         L \in Login => profiles'[L].role # "none" /\ profiles'[L] # NoProfile,
         L \in Login /\ L \notin unsettled' =>
           /\ \A v \in StaffPage \ {w} : ~PageOn(v, L)
           /\ \A q \in CreateCall : ~CreationOn(q, L)
           /\ g.aal2 => profiles'[L] = [role |-> g.role, active |-> g.active]
           /\ g.aal2 /\ g.step = "insert" => access'[L] = NoAccess
           /\ ~g.aal2 => Agrees(L)'
  PROVE  StaffInv'
<1>1. StaffShape' /\ LoginsThere'
  <2>1. g.login \in Login => profiles[g.login] # NoProfile
    OBVIOUS
  <2>2. QED
    BY <2>1, PageShape
<1>2. /\ DOMAIN pages' = StaffPage /\ pages'[w] = g
      /\ \A v \in StaffPage \ {w} : pages'[v] = pages[v]
  BY DEF StaffInv, StaffShape
<1>3. ASSUME NEW u \in Login, u # L
      PROVE  Calm(u)'
  BY <1>3, PageElsewhere DEF PageOn
<1>4. ASSUME L \in Login
      PROVE  Calm(L)'
  <2>1. PageOn(w, L)'
    BY <1>2 DEF PageOn, Saving
  <2>2. L \notin unsettled' =>
          /\ \A v \in StaffPage : PageOn(v, L)' => v = w
          /\ \A q \in CreateCall : ~CreationOn(q, L)'
    BY <1>2, <1>4 DEF PageOn, Saving, CreationOn, Creating
  <2>3. L \notin unsettled' => PageHolds(w, L)'
    BY <1>2, <1>4 DEF PageHolds
  <2>4. QED
    BY <2>1, <2>2, <2>3 DEF Calm, Idle
<1>5. QED
  BY <1>1, <1>3, <1>4 DEF StaffInv

\* A save that writes no more leaves a login calm if it wrote nothing.
LEMMA PageStops ==
  ASSUME StaffInv, NEW w \in StaffPage, Saving(w), NEW g, PageTyped(g),
         g.step \notin {"grants", "delete", "insert"},
         g.login = pages[w].login \/ g.login \notin Login,
         pages' = [pages EXCEPT ![w] = g],
         UNCHANGED <<creations, profiles, access>>,
         unsettled \subseteq unsettled',
         pages[w].login \in Login /\ pages[w].login \notin unsettled' => ~pages[w].aal2
  PROVE  StaffInv'
<1> PICK L : L = pages[w].login
  OBVIOUS
<1>1. DOMAIN profiles' = Login /\ DOMAIN access' = Login
  BY DEF StaffInv, StaffShape
<1>2. \A u \in Login \ {L} : profiles'[u] = profiles[u] /\ access'[u] = access[u]
  OBVIOUS
<1>3. L \in Login => profiles'[L].role # "none" /\ profiles'[L] # NoProfile
  BY PageAlone
<1>4. StaffShape' /\ LoginsThere'
  <2>1. g.login \in Login => profiles[g.login] # NoProfile
    BY PageAlone
  <2>2. creations' = creations
    OBVIOUS
  <2>3. QED
    BY <1>1, <1>2, <1>3, <2>1, <2>2, PageShape
<1>5. /\ DOMAIN pages' = StaffPage /\ pages'[w] = g
      /\ \A v \in StaffPage \ {w} : pages'[v] = pages[v]
  BY DEF StaffInv, StaffShape
<1>6. ASSUME NEW u \in Login, u # L
      PROVE  Calm(u)'
  BY <1>6, PageElsewhere DEF PageOn
<1>7. ASSUME L \in Login
      PROVE  Calm(L)'
  <2>1. L \notin unsettled' =>
          /\ \A v \in StaffPage \ {w} : ~PageOn(v, L)
          /\ \A q \in CreateCall : ~CreationOn(q, L)
          /\ Agrees(L)
    BY <1>7, PageAlone DEF PageHolds
  <2>2. L \notin unsettled' =>
          /\ \A v \in StaffPage : ~PageOn(v, L)'
          /\ \A q \in CreateCall : ~CreationOn(q, L)'
    BY <1>5, <1>7, <2>1 DEF PageOn, Saving, CreationOn, Creating
  <2>3. L \notin unsettled' => Agrees(L)'
    BY <2>1 DEF Agrees
  <2>4. QED
    BY <1>7, <2>2, <2>3 DEF Calm, Idle
<1>8. QED
  BY <1>4, <1>6, <1>7 DEF StaffInv

LEMMA CreationShape ==
  ASSUME StaffInv, NEW q \in CreateCall,
         creations[q].step \in {"login", "profile", "grants", "access", "rollback"}
  PROVE  /\ DOMAIN creations[q] = CreationFields
         /\ creations[q].login \in Login /\ creations[q].role # "none"
BY DEF StaffInv, StaffShape, CreationTyped

LEMMA AskForLoginKeeps ==
  ASSUME StaffInv, NEW q \in CreateCall, NEW u \in Login, NEW role \in StaffRole, NEW ticks,
         NEW entities, NEW aal2, AskForLogin(q, u, role, ticks, entities, aal2)
  PROVE  StaffInv'
<1> DEFINE c == [step |-> "login", login |-> u, role |-> role, ticks |-> ticks,
                 entities |-> entities, aal2 |-> aal2]
<1>1. c.step = "login" /\ CreationTyped(c)
  BY DEF CreationTyped, CreationFields, StaffRole, FinanceRole
<1>2. ~Creating(q)
  BY DEF AskForLogin, Creating, NoCreation
<1>3. creations' = [creations EXCEPT ![q] = c]
  BY DEF AskForLogin
<1> HIDE DEF c
<1>4. QED
  BY <1>1, <1>2, <1>3, CreationAside DEF AskForLogin

LEMMA CreateLoginKeeps ==
  ASSUME StaffInv, NEW q \in CreateCall, CreateLogin(q)
  PROVE  StaffInv'
<1> PICK u : u = creations[q].login
  OBVIOUS
<1>1. /\ u \in Login /\ ~Creating(q) /\ DOMAIN creations[q] = CreationFields
      /\ creations[q].role # "none"
  BY CreationShape DEF CreateLogin, Creating
<1>2. CASE Exists(u)
  <2> PICK c : c = [creations[q] EXCEPT !.step = "refused"]
    OBVIOUS
  <2>1. c.step = "refused" /\ creations' = [creations EXCEPT ![q] = c]
    BY <1>1, <1>2 DEF CreateLogin, CreationFields, StaffInv, StaffShape
  <2>2. CreationTyped(c)
    BY <2>1 DEF CreationTyped
  <2>3. QED
    BY <1>1, <1>2, <2>1, <2>2, CreationAside DEF CreateLogin
<1>3. CASE ~Exists(u)
  <2> PICK c : c = [creations[q] EXCEPT !.step = "profile"]
    OBVIOUS
  <2>1. /\ c.step = "profile" /\ c.login = u /\ CreationTyped(c)
    BY <1>1 DEF CreationFields, CreationTyped
  <2>2. /\ profiles' = [profiles EXCEPT ![u] = [role |-> "read_only", active |-> TRUE]]
        /\ creations' = [creations EXCEPT ![q] = c]
        /\ UNCHANGED <<access, pages, unsettled>>
    BY <1>1, <1>3 DEF CreateLogin, StaffInv, StaffShape
  <2>3. profiles[u] = NoProfile /\ access[u] = NoAccess
    BY <1>1, <1>3 DEF Exists, StaffInv, LoginsThere
  <2>4. /\ DOMAIN profiles' = Login /\ DOMAIN access' = Login
        /\ \A v \in Login \ {u} : profiles'[v] = profiles[v] /\ access'[v] = access[v]
        /\ profiles'[u] = [role |-> "read_only", active |-> TRUE]
    BY <1>1, <2>2 DEF StaffInv, StaffShape
  <2>5. profiles'[u].role # "none" /\ profiles'[u] # NoProfile
    BY <2>4, ProfileIsNotNone
  <2>6. /\ DOMAIN creations' = CreateCall /\ creations'[q] = c
        /\ \A p \in CreateCall \ {q} : creations'[p] = creations[p]
    BY <2>2 DEF StaffInv, StaffShape
  <2>7. \A p \in CreateCall : CreationOn(p, u)' => p = q
    BY <2>3, <2>6 DEF CreationOn, Creating, StaffInv, LoginsThere
  <2>8. \A w \in StaffPage : ~PageOn(w, u)'
    BY <1>1, <2>2, <2>3 DEF PageOn, Saving, StaffInv, LoginsThere
  <2>9. CreationOn(q, u)' /\ CreationHolds(q, u)'
    BY <2>1, <2>2, <2>3, <2>6 DEF CreationOn, Creating, CreationHolds
  <2>10. Calm(u)'
    BY <1>1, <2>7, <2>8, <2>9, CreationCalm
  <2>11. c.login = creations[q].login /\ Calm(c.login)'
    BY <2>1, <2>10
  <2>12. creations[q].step = "login"
    BY DEF CreateLogin
  <2>13. QED
    BY <1>1, <2>1, <2>2, <2>3, <2>4, <2>5, <2>11, <2>12, CreationMoves
<1>4. QED
  BY <1>2, <1>3

LEMMA UpsertProfileKeeps ==
  ASSUME StaffInv, NEW q \in CreateCall, NEW ok \in BOOLEAN, UpsertProfile(q, ok)
  PROVE  StaffInv'
<1> PICK u : u = creations[q].login
  OBVIOUS
<1>1. Creating(q) /\ creations[q].step = "profile"
  BY DEF UpsertProfile, Creating
<1>2. /\ u \in Login /\ profiles[u] # NoProfile /\ profiles[u].role # "none"
      /\ DOMAIN creations[q] = CreationFields /\ creations[q].role # "none"
      /\ u \notin unsettled => access[u] = NoAccess
  BY <1>1, CreationAlone DEF CreationHolds
<1>3. DOMAIN profiles = Login /\ DOMAIN access = Login /\ DOMAIN creations = CreateCall
  BY DEF StaffInv, StaffShape
<1>4. CASE creations[q].aal2 /\ ok
  <2> PICK c : c = [creations[q] EXCEPT !.step = "grants"]
    OBVIOUS
  <2>1. /\ creations' = [creations EXCEPT ![q] = c]
        /\ profiles' = [profiles EXCEPT ![u] = [role |-> creations[q].role, active |-> TRUE]]
        /\ UNCHANGED <<access, pages, unsettled>>
    BY <1>3, <1>4 DEF UpsertProfile, MoveCreation
  <2>2. /\ DOMAIN profiles' = Login
        /\ \A v \in Login \ {u} : profiles'[v] = profiles[v]
        /\ profiles'[u] = [role |-> creations[q].role, active |-> TRUE]
    BY <1>2, <1>3, <2>1
  <2>3. profiles'[u].role # "none" /\ profiles'[u] # NoProfile
    BY <1>2, <2>2, ProfileIsNotNone
  <2>4. QED
    BY <1>1, <1>2, <1>3, <2>1, <2>2, <2>3, CreationWorks, ZenonT(30)
<1>5. CASE ~(creations[q].aal2 /\ ok)
  <2> PICK c : c = [creations[q] EXCEPT !.step = "rollback"]
    OBVIOUS
  <2>1. /\ creations' = [creations EXCEPT ![q] = c]
        /\ UNCHANGED <<profiles, access, pages, unsettled>>
    BY <1>3, <1>5 DEF UpsertProfile, MoveCreation
  <2>2. QED
    BY <1>1, <1>2, <1>3, <2>1, CreationWorks
<1>6. QED
  BY <1>4, <1>5

LEMMA UpsertGrantsKeeps ==
  ASSUME StaffInv, NEW q \in CreateCall, NEW ok \in BOOLEAN, UpsertGrants(q, ok)
  PROVE  StaffInv'
<1> PICK u : u = creations[q].login
  OBVIOUS
<1>1. Creating(q) /\ creations[q].step = "grants"
  BY DEF UpsertGrants, Creating
<1>2. /\ u \in Login /\ profiles[u] # NoProfile /\ profiles[u].role # "none"
      /\ u \notin unsettled =>
           access[u] = NoAccess /\ profiles[u] = [role |-> creations[q].role, active |-> TRUE]
  BY <1>1, CreationAlone DEF CreationHolds
<1>3. DOMAIN profiles = Login /\ DOMAIN access = Login /\ DOMAIN creations = CreateCall
  BY DEF StaffInv, StaffShape
<1>4. PICK step \in {"created", "access", "rollback"} :
        creations' = [creations EXCEPT ![q].step = step]
  BY DEF UpsertGrants, MoveCreation
<1> PICK c : c = [creations[q] EXCEPT !.step = step]
  OBVIOUS
<1>5. creations' = [creations EXCEPT ![q] = c]
  BY <1>3, <1>4
<1>6. UNCHANGED <<profiles, access, pages, unsettled>>
  BY DEF UpsertGrants
<1>7. u \notin unsettled' => Agrees(u)'
  BY <1>2, <1>6, NoAccessIs DEF Agrees
<1>8. /\ unsettled \subseteq unsettled' /\ pages' = pages
      /\ DOMAIN profiles' = Login /\ DOMAIN access' = Login
      /\ \A v \in Login \ {u} : profiles'[v] = profiles[v] /\ access'[v] = access[v]
      /\ profiles'[u].role # "none" /\ profiles'[u] # NoProfile
  BY <1>2, <1>3, <1>6
<1>9. CASE step = "created"
  BY <1>1, <1>5, <1>7, <1>8, <1>9, CreationWorks, ZenonT(30)
<1>10. CASE step = "access"
  BY <1>1, <1>2, <1>5, <1>6, <1>8, <1>10, CreationWorks
<1>11. CASE step = "rollback"
  BY <1>1, <1>2, <1>5, <1>6, <1>8, <1>11, CreationWorks
<1>12. QED
  BY <1>4, <1>9, <1>10, <1>11

LEMMA GiveAccessKeeps ==
  ASSUME StaffInv, NEW q \in CreateCall, NEW ok \in BOOLEAN, GiveAccess(q, ok)
  PROVE  StaffInv'
<1> PICK u : u = creations[q].login
  OBVIOUS
<1>1. Creating(q) /\ creations[q].step = "access"
  BY DEF GiveAccess, Creating
<1>2. /\ u \in Login /\ profiles[u] # NoProfile /\ profiles[u].role # "none"
      /\ u \notin unsettled =>
           access[u] = NoAccess /\ profiles[u] = [role |-> creations[q].role, active |-> TRUE]
  BY <1>1, CreationAlone DEF CreationHolds
<1>3. DOMAIN profiles = Login /\ DOMAIN access = Login /\ DOMAIN creations = CreateCall
  BY DEF StaffInv, StaffShape
<1>4. UNCHANGED <<profiles, pages, unsettled>>
  BY DEF GiveAccess
<1>5. CASE ok
  <2> PICK c : c = [creations[q] EXCEPT !.step = "created"]
    OBVIOUS
  <2>1. creations' = [creations EXCEPT ![q] = c]
    BY <1>3, <1>5 DEF GiveAccess, MoveCreation
  <2> DEFINE row == [role |-> creations[q].role, active |-> TRUE]
             rows == [e \in creations[q].entities \cup DOMAIN access[u] |->
                        IF e \in creations[q].entities THEN row ELSE access[u][e]]
  <2>2. access' = [access EXCEPT ![u] = rows]
    BY <1>5 DEF GiveAccess
  <2>3. \A e \in DOMAIN rows : e \notin DOMAIN access[u] => rows[e] = row
    OBVIOUS
  <2> HIDE DEF rows
  <2>4. /\ DOMAIN access' = Login /\ access'[u] = rows
        /\ \A v \in Login \ {u} : access'[v] = access[v]
    BY <1>2, <1>3, <2>2
  <2>5. u \notin unsettled' => Agrees(u)'
    BY <1>2, <1>4, <2>3, <2>4, NoAccessIs DEF Agrees
  <2>6. /\ unsettled \subseteq unsettled' /\ pages' = pages
        /\ DOMAIN profiles' = Login /\ DOMAIN access' = Login
        /\ \A v \in Login \ {u} : profiles'[v] = profiles[v] /\ access'[v] = access[v]
        /\ profiles'[u].role # "none" /\ profiles'[u] # NoProfile
    BY <1>2, <1>3, <1>4, <2>4
  <2>7. QED
    BY <1>1, <2>1, <2>5, <2>6, CreationWorks, ZenonT(30)
<1>6. CASE ~ok
  <2> PICK c : c = [creations[q] EXCEPT !.step = "rollback"]
    OBVIOUS
  <2>1. creations' = [creations EXCEPT ![q] = c] /\ access' = access
    BY <1>3, <1>6 DEF GiveAccess, MoveCreation
  <2>2. QED
    BY <1>1, <1>2, <1>3, <1>4, <2>1, CreationWorks
<1>7. QED
  BY <1>5, <1>6

LEMMA CreationDiesKeeps ==
  ASSUME StaffInv, NEW q \in CreateCall, CreationDies(q)
  PROVE  StaffInv'
<1> PICK u : u = creations[q].login
  OBVIOUS
<1> PICK c : c = [creations[q] EXCEPT !.step = "failed"]
  OBVIOUS
<1>1. DOMAIN profiles = Login /\ DOMAIN access = Login /\ DOMAIN creations = CreateCall
  BY DEF StaffInv, StaffShape
<1>2. /\ creations' = [creations EXCEPT ![q] = c]
      /\ UNCHANGED <<profiles, access, pages>>
  BY <1>1 DEF CreationDies, MoveCreation
<1>3. CASE Creating(q)
  <2>1. unsettled' = unsettled \cup {u}
    BY <1>3 DEF CreationDies
  <2>2. u \in Login /\ profiles[u] # NoProfile /\ profiles[u].role # "none"
    BY <1>3, CreationAlone
  <2>3. QED
    BY <1>1, <1>2, <1>3, <2>1, <2>2, CreationWorks
<1>4. CASE ~Creating(q)
  <2>1. creations[q].step = "login" /\ unsettled' = unsettled
    BY <1>4 DEF CreationDies
  <2>2. c.step = "failed" /\ CreationTyped(c)
    BY <2>1, CreationShape DEF CreationFields, CreationTyped
  <2>3. QED
    BY <1>2, <1>4, <2>1, <2>2, CreationAside
<1>5. QED
  BY <1>3, <1>4

\* The login a creation takes back is left by everybody who showed it.
LEMMA RollbackKeeps ==
  ASSUME StaffInv, NEW q \in CreateCall, NEW ok \in BOOLEAN, RollbackCreatedUser(q, ok)
  PROVE  StaffInv'
<1> PICK u : u = creations[q].login
  OBVIOUS
<1> PICK c : c = [creations[q] EXCEPT !.step = "failed"]
  OBVIOUS
<1>1. /\ DOMAIN profiles = Login /\ DOMAIN access = Login /\ DOMAIN creations = CreateCall
      /\ DOMAIN pages = StaffPage
  BY DEF StaffInv, StaffShape
<1>2. creations[q].step = "rollback" /\ Creating(q)
  BY DEF RollbackCreatedUser, Creating
<1>3. /\ u \in Login /\ profiles[u] # NoProfile /\ profiles[u].role # "none"
      /\ DOMAIN creations[q] = CreationFields
      /\ \A p \in CreateCall : CreationOn(p, u) => p = q
  BY <1>2, CreationAlone
<1>4. creations' = [creations EXCEPT ![q] = c]
  BY <1>1 DEF RollbackCreatedUser, MoveCreation
<1>5. CASE ~ok
  <2>1. /\ UNCHANGED <<profiles, access>> /\ unsettled' = unsettled \cup {u}
    BY <1>5 DEF RollbackCreatedUser
  <2>2. pages' = pages
    <3>1. pages' = [w \in StaffPage |-> pages[w]]
      BY <1>5 DEF RollbackCreatedUser
    <3>2. pages = [w \in StaffPage |-> pages[w]]
      BY DEF StaffInv, StaffShape
    <3>3. QED
      BY <3>1, <3>2
  <2>3. QED
    BY <1>1, <1>2, <1>3, <1>4, <2>1, <2>2, CreationWorks
<1>6. CASE ok
  <2>1. /\ profiles' = [profiles EXCEPT ![u] = NoProfile]
        /\ access' = [access EXCEPT ![u] = NoAccess] /\ unsettled' = unsettled
        /\ pages' = [w \in StaffPage |->
             IF pages[w].login = u THEN [pages[w] EXCEPT !.login = NoLogin] ELSE pages[w]]
    BY <1>6 DEF RollbackCreatedUser
  <2>2. /\ DOMAIN profiles' = Login /\ DOMAIN access' = Login
        /\ profiles'[u] = NoProfile /\ access'[u] = NoAccess
        /\ \A v \in Login \ {u} : profiles'[v] = profiles[v] /\ access'[v] = access[v]
    BY <1>1, <1>3, <2>1
  <2>3. /\ DOMAIN pages' = StaffPage
        /\ \A w \in StaffPage : pages[w].login # u => pages'[w] = pages[w]
    BY <2>1
  <2>4. ASSUME NEW w \in StaffPage, pages[w].login = u
        PROVE  /\ pages'[w].step = pages[w].step /\ PageTyped(pages'[w])
               /\ pages'[w].login \notin Login
    <3>1. pages'[w] = [pages[w] EXCEPT !.login = NoLogin]
      BY <2>1, <2>4
    <3>2. PageTyped(pages[w])
      BY DEF StaffInv, StaffShape
    <3>3. QED
      BY <1>3, <2>4, <3>1, <3>2, StaffAssumption DEF PageTyped, PageFields
  <2>5. /\ DOMAIN creations' = CreateCall /\ creations'[q] = c
        /\ \A p \in CreateCall \ {q} : creations'[p] = creations[p]
    BY <1>1, <1>4
  <2>6. c.step = "failed" /\ ~Creating(q)'
    BY <1>3, <2>5 DEF Creating, CreationFields
  <2>7. \A p \in CreateCall : Creating(p)' =>
          Creating(p) /\ p # q /\ creations'[p] = creations[p]
    BY <2>5, <2>6 DEF Creating
  <2>8. \A p \in CreateCall : Creating(p)' => creations[p].login # u
    BY <1>3, <2>7 DEF CreationOn
  <2>9. StaffShape'
    <3>1. pages' = [w \in StaffPage |-> pages'[w]]
      BY <2>1
    <3>2. \A w \in StaffPage : PageTyped(pages'[w])
      BY <2>3, <2>4 DEF StaffInv, StaffShape
    <3>3. \A p \in CreateCall : CreationTyped(creations'[p])
      BY <2>5, <2>6 DEF StaffInv, StaffShape, CreationTyped
    <3>4. QED
      BY <2>2, <2>3, <2>5, <3>1, <3>2, <3>3 DEF StaffShape, CreationTyped, PageTyped
  <2>10. LoginsThere'
    <3>1. \A v \in Login : profiles'[v].role = "none" => profiles'[v] = NoProfile
      BY <2>2 DEF StaffInv, LoginsThere
    <3>2. \A v \in Login : profiles'[v] = NoProfile => access'[v] = NoAccess
      BY <2>2 DEF StaffInv, LoginsThere
    <3>3. \A p \in CreateCall : Creating(p) => creations[p].login \in Login
      BY DEF StaffInv, StaffShape, CreationTyped, Creating
    <3>4. \A p \in CreateCall : Creating(p)' => profiles'[creations'[p].login] # NoProfile
      BY <2>2, <2>7, <2>8, <3>3 DEF StaffInv, LoginsThere
    <3>5. \A p, o \in CreateCall :
            Creating(p)' /\ Creating(o)' /\ creations'[p].login = creations'[o].login => p = o
      BY <2>7 DEF StaffInv, LoginsThere
    <3>6. \A w \in StaffPage :
            pages'[w].login \in Login => profiles'[pages'[w].login] # NoProfile
      BY <2>2, <2>3, <2>4 DEF StaffInv, LoginsThere
    <3>7. QED
      BY <3>1, <3>2, <3>4, <3>5, <3>6 DEF LoginsThere
  <2>11. ASSUME NEW v \in Login
         PROVE  Calm(v)'
    <3>1. CASE v = u
      <4>1. \A p \in CreateCall : ~CreationOn(p, v)'
        BY <2>7, <2>8, <3>1 DEF CreationOn
      <4>2. \A w \in StaffPage : ~PageOn(w, v)'
        BY <2>3, <2>4, <3>1 DEF PageOn, Saving
      <4>3. Agrees(v)'
        BY <2>2, <3>1, NoAccessIs DEF Agrees
      <4>4. QED
        BY <4>1, <4>2, <4>3 DEF Calm, Idle
    <3>2. CASE v # u
      <4>1. \A p \in CreateCall : /\ CreationOn(p, v)' <=> CreationOn(p, v)
                                  /\ CreationOn(p, v) => creations'[p] = creations[p]
        BY <1>2, <2>5, <2>6, <2>7, <3>2 DEF CreationOn, Creating
      <4>2. \A w \in StaffPage : /\ PageOn(w, v)' <=> PageOn(w, v)
                                 /\ PageOn(w, v) => pages'[w] = pages[w]
        BY <2>3, <2>4, <3>2 DEF PageOn, Saving
      <4>3. QED
        BY <2>1, <2>2, <3>2, <4>1, <4>2, CalmStays DEF StaffInv
    <3>3. QED
      BY <3>1, <3>2
  <2>12. QED
    BY <2>9, <2>10, <2>11 DEF StaffInv
<1>7. QED
  BY <1>5, <1>6

\* A page that no save is at work on shows another form, or none.
LEMMA FormMoves ==
  ASSUME StaffInv, NEW w \in StaffPage, ~Saving(w), NEW g, PageTyped(g),
         g.step \notin {"grants", "delete", "insert"},
         g.login \in Login => profiles[g.login] # NoProfile,
         pages' = [pages EXCEPT ![w] = g],
         creations' = creations, profiles' = profiles, access' = access,
         unsettled' = unsettled
  PROVE  StaffInv'
<1>1. DOMAIN profiles' = Login /\ DOMAIN access' = Login
  BY DEF StaffInv, StaffShape
<1>2. StaffShape' /\ LoginsThere'
  <2>1. \A u \in Login \ {NoLogin} : profiles'[u] = profiles[u] /\ access'[u] = access[u]
    OBVIOUS
  <2>2. QED
    BY <1>1, <2>1, StaffAssumption, PageShape
<1>3. ASSUME NEW u \in Login
      PROVE  Calm(u)'
  BY <1>3, PageElsewhere DEF PageOn
<1>4. QED
  BY <1>2, <1>3 DEF StaffInv

LEMMA FormShape ==
  ASSUME StaffInv, NEW w \in StaffPage, Form(w) \/ Saving(w)
  PROVE  /\ DOMAIN pages[w] = PageFields /\ pages[w].role # "none" /\ PageTyped(pages[w])
         /\ pages[w].login \in Login => profiles[pages[w].login] # NoProfile
BY DEF StaffInv, StaffShape, LoginsThere, PageTyped, Form, Saving

LEMMA OpenEditKeeps ==
  ASSUME StaffInv, NEW w \in StaffPage, NEW u \in Login, NEW aal2, OpenEdit(w, u, aal2)
  PROVE  StaffInv'
<1> PICK g : g = [step |-> "open", login |-> u, role |-> profiles[u].role,
        active |-> profiles[u].active,
        ticks |-> IF granted[u] = NoTicks THEN RoleDefaults(profiles[u].role) ELSE granted[u],
        entities |-> {e \in DOMAIN access[u] : access[u][e].active}, aal2 |-> aal2]
  OBVIOUS
<1>1. profiles[u] # NoProfile /\ profiles[u].role # "none"
  BY DEF OpenEdit, Exists, StaffInv, LoginsThere
<1>2. g.step = "open" /\ g.login = u /\ PageTyped(g)
  BY <1>1 DEF PageTyped, PageFields
<1>3. pages' = [pages EXCEPT ![w] = g]
  BY DEF OpenEdit
<1>4. QED
  BY <1>1, <1>2, <1>3, FormMoves DEF OpenEdit

LEMMA EditRoleKeeps ==
  ASSUME StaffInv, NEW w \in StaffPage, NEW role \in StaffRole, EditRole(w, role)
  PROVE  StaffInv'
<1> PICK f : f = [pages[w] EXCEPT !.role = role]
  OBVIOUS
<1> PICK g : g = [f EXCEPT !.ticks = RoleDefaults(role)]
  OBVIOUS
<1>1. /\ Form(w) /\ ~Saving(w) /\ pages[w].step = "open"
  BY DEF EditRole, Form, Saving
<1>2. /\ f.step = "open" /\ f.login = pages[w].login /\ f.role = role
      /\ DOMAIN f = PageFields
  BY <1>1, FormShape DEF PageFields
<1>3. g.step = "open" /\ g.login = pages[w].login /\ g.role = role /\ DOMAIN g = PageFields
  BY <1>2 DEF PageFields
<1>4. PageTyped(g)
  BY <1>3 DEF PageTyped, StaffRole, FinanceRole
<1>5. pages' = [pages EXCEPT ![w] = g]
  BY DEF EditRole, StaffInv, StaffShape
<1>6. QED
  BY <1>1, <1>3, <1>4, <1>5, FormShape, FormMoves DEF EditRole

LEMMA EditFormKeeps ==
  ASSUME StaffInv, NEW w \in StaffPage, NEW active, NEW ticks, NEW entities,
         EditForm(w, active, ticks, entities)
  PROVE  StaffInv'
<1> PICK e : e = [pages[w] EXCEPT !.active = active]
  OBVIOUS
<1> PICK f : f = [e EXCEPT !.ticks = ticks]
  OBVIOUS
<1> PICK g : g = [f EXCEPT !.entities = entities]
  OBVIOUS
<1>1. /\ Form(w) /\ ~Saving(w) /\ pages[w].step = "open"
  BY DEF EditForm, Form, Saving
<1>2. /\ e.step = "open" /\ e.login = pages[w].login /\ e.role # "none"
      /\ DOMAIN e = PageFields
  BY <1>1, FormShape DEF PageFields
<1>3. f.step = "open" /\ f.login = pages[w].login /\ f.role # "none" /\ DOMAIN f = PageFields
  BY <1>2 DEF PageFields
<1>4. g.step = "open" /\ g.login = pages[w].login /\ g.role # "none" /\ DOMAIN g = PageFields
  BY <1>3 DEF PageFields
<1>5. PageTyped(g)
  BY <1>4 DEF PageTyped
<1>6. pages' = [pages EXCEPT ![w] = g]
  BY DEF EditForm, StaffInv, StaffShape
<1>7. QED
  BY <1>1, <1>4, <1>5, <1>6, FormShape, FormMoves DEF EditForm

LEMMA LeavePageKeeps ==
  ASSUME StaffInv, NEW w \in StaffPage, LeavePage(w)
  PROVE  StaffInv'
<1>1. NoForm.step = "closed" /\ NoForm.login = NoLogin /\ PageTyped(NoForm)
  BY DEF NoForm, PageTyped
<1>2. /\ pages' = [pages EXCEPT ![w] = NoForm]
      /\ UNCHANGED <<profiles, access, creations>>
  BY DEF LeavePage
<1>3. CASE ~Saving(w)
  BY <1>1, <1>2, <1>3, StaffAssumption, FormMoves DEF LeavePage
<1>4. CASE Saving(w)
  <2>1. unsettled \subseteq unsettled'
    BY DEF LeavePage
  <2>2. pages[w].login \in Login /\ pages[w].login \notin unsettled' => ~pages[w].aal2
    BY <1>4 DEF LeavePage
  <2>3. QED
    BY <1>1, <1>2, <1>4, <2>1, <2>2, StaffAssumption, PageStops
<1>5. QED
  BY <1>3, <1>4

\* A save that ends early has written nothing, or is marked.
LEMMA EndEarlyKeeps ==
  ASSUME StaffInv, NEW w \in StaffPage, Saving(w), EndEarly(w),
         UNCHANGED <<creations, profiles, access>>
  PROVE  StaffInv'
<1>0. PICK g : g = [pages[w] EXCEPT !.step = "open"]
  OBVIOUS
<1>1. /\ DOMAIN pages[w] = PageFields /\ pages[w].role # "none"
      /\ pages[w].login \in Login => profiles[pages[w].login] # NoProfile
  BY FormShape
<1>2. g.step = "open" /\ g.login = pages[w].login /\ PageTyped(g)
  BY <1>0, <1>1 DEF PageTyped, PageFields
<1>3. pages' = [pages EXCEPT ![w] = g]
  BY <1>0 DEF EndEarly, StaffInv, StaffShape
<1>4. unsettled \subseteq unsettled'
  BY DEF EndEarly
<1>5. pages[w].login \in Login /\ pages[w].login \notin unsettled' => ~pages[w].aal2
  BY DEF EndEarly
<1>6. QED
  BY <1>2, <1>3, <1>4, <1>5, PageStops

\* A save goes on to its next write, or ends with the last.
LEMMA SaveGoesOn ==
  ASSUME StaffInv, NEW w \in StaffPage, Saving(w), pages[w].aal2,
         NEW step \in {"open", "delete", "insert"},
         NEW g, PageTyped(g), g.step = step, g.login = pages[w].login, g.aal2,
         g.role = pages[w].role, g.active = pages[w].active,
         pages' = [pages EXCEPT ![w] = g],
         creations' = creations, profiles' = profiles, unsettled' = unsettled,
         DOMAIN access' = Login,
         NEW L, L = pages[w].login,
         \A u \in Login \ {L} : access'[u] = access[u],
         L \in Login /\ L \notin unsettled =>
           /\ step = "insert" => access'[L] = NoAccess
           /\ step = "open" => Agrees(L)'
  PROVE  StaffInv'
<1>1. /\ DOMAIN pages[w] = PageFields /\ pages[w].role # "none"
      /\ pages[w].login \in Login => profiles[pages[w].login] # NoProfile
  BY FormShape
<1>2. g.login = L
  OBVIOUS
<1>3. L \in Login => profiles'[L].role # "none" /\ profiles'[L] # NoProfile
  BY PageAlone
<1>4. L \in Login /\ L \notin unsettled' =>
        /\ \A v \in StaffPage \ {w} : ~PageOn(v, L)
        /\ \A q \in CreateCall : ~CreationOn(q, L)
        /\ profiles'[L] = [role |-> g.role, active |-> g.active]
  BY <1>2, PageAlone DEF PageHolds
<1>5. DOMAIN profiles' = Login
  BY DEF StaffInv, StaffShape
<1>6. \A u \in Login \ {L} : profiles'[u] = profiles[u] /\ access'[u] = access[u]
  OBVIOUS
<1>7. CASE step = "open"
  <2>1. /\ g.step \notin {"grants", "delete", "insert"}
        /\ g.login = L /\ (L \in Login => profiles[L] # NoProfile)
    BY <1>1, <1>2, <1>7
  <2>2. /\ unsettled \subseteq unsettled'
        /\ L \in Login /\ L \notin unsettled' =>
             /\ \A v \in StaffPage \ {w} : ~PageOn(v, L)
             /\ \A q \in CreateCall : ~CreationOn(q, L)
             /\ Agrees(L)'
    BY <1>4, <1>7
  <2>3. QED
    BY <1>3, <1>5, <1>6, <2>1, <2>2, PageEnds
<1>8. CASE step \in {"delete", "insert"}
  <2>1. g.step \in {"grants", "delete", "insert"} /\ (g.step = "insert" => step = "insert")
    BY <1>2, <1>8
  <2>2. g.login = L /\ (L \in Login => profiles[L] # NoProfile)
    BY <1>1, <1>2
  <2>3. /\ unsettled \subseteq unsettled'
        /\ L \in Login /\ L \notin unsettled' =>
             /\ \A v \in StaffPage \ {w} : ~PageOn(v, L)
             /\ \A q \in CreateCall : ~CreationOn(q, L)
             /\ g.aal2 => profiles'[L] = [role |-> g.role, active |-> g.active]
             /\ g.aal2 /\ g.step = "insert" => access'[L] = NoAccess
             /\ ~g.aal2 => Agrees(L)'
    BY <1>4, <2>1
  <2>4. QED
    BY <1>3, <1>5, <1>6, <2>1, <2>2, <2>3, PageGoesOn
<1>9. QED
  BY <1>7, <1>8

LEMMA SaveProfileKeeps ==
  ASSUME StaffInv, NEW w \in StaffPage, NEW ok \in BOOLEAN, SaveProfile(w, ok)
  PROVE  StaffInv'
<1>1. /\ Form(w) /\ ~Saving(w) /\ pages[w].step = "open"
  BY DEF SaveProfile, Form, Saving
<1>2. /\ DOMAIN pages[w] = PageFields /\ pages[w].role # "none"
      /\ pages[w].login \in Login => profiles[pages[w].login] # NoProfile
  BY <1>1, FormShape
<1>3. CASE ~ok
  BY <1>3 DEF SaveProfile, StaffInv, StaffShape, LoginsThere, Calm, Idle, Agrees,
              CreationHolds, PageHolds, CreationOn, PageOn, Creating, Saving
<1>4. CASE ok
  <2> PICK L : L = pages[w].login
    OBVIOUS
  <2>0. PICK g : g = [pages[w] EXCEPT !.step = "grants"]
    OBVIOUS
  <2>1. /\ g.step = "grants" /\ g.login = L /\ g.aal2 = pages[w].aal2
        /\ g.role = pages[w].role /\ g.active = pages[w].active /\ PageTyped(g)
    BY <1>2, <2>0 DEF PageTyped, PageFields
  <2>2. /\ pages' = [pages EXCEPT ![w] = g]
        /\ UNCHANGED <<access, creations>>
    BY <1>4, <2>0 DEF SaveProfile, StaffInv, StaffShape
  <2>3. Exists(L) <=> L \in Login
    BY <1>2 DEF Exists
  <2>4. unsettled' = IF L \in Login THEN Meeting(L) ELSE unsettled
    BY <1>4, <2>3 DEF SaveProfile
  <2>5. unsettled \subseteq unsettled'
    BY <2>4 DEF Meeting
  <2>6. profiles' = IF pages[w].aal2 /\ L \in Login
                    THEN [profiles EXCEPT ![L] = [role |-> g.role, active |-> g.active]]
                    ELSE profiles
    BY <1>4, <2>1, <2>3 DEF SaveProfile
  <2>7. /\ DOMAIN profiles' = Login /\ DOMAIN access' = Login
        /\ \A u \in Login : u # L => profiles'[u] = profiles[u] /\ access'[u] = access[u]
        /\ L \in Login /\ pages[w].aal2 => profiles'[L] = [role |-> g.role, active |-> g.active]
        /\ ~pages[w].aal2 => profiles' = profiles
    BY <2>2, <2>6 DEF StaffInv, StaffShape
  <2>8. L \in Login => profiles'[L].role # "none" /\ profiles'[L] # NoProfile
    <3>1. CASE pages[w].aal2
      BY <1>2, <2>1, <2>7, <3>1, ProfileIsNotNone
    <3>2. CASE ~pages[w].aal2
      BY <1>2, <2>7, <3>2 DEF StaffInv, LoginsThere
    <3>3. QED
      BY <3>1, <3>2
  <2>9. ASSUME L \in Login, L \notin unsettled'
        PROVE  /\ \A v \in StaffPage : ~PageOn(v, L)
               /\ \A q \in CreateCall : ~CreationOn(q, L)
               /\ g.aal2 => profiles'[L] = [role |-> g.role, active |-> g.active]
               /\ ~g.aal2 => Agrees(L)'
    <3>1. AtWork(L) = {}
      BY <2>4, <2>9 DEF Meeting
    <3>2. /\ \A v \in StaffPage : ~PageOn(v, L)
          /\ \A q \in CreateCall : ~CreationOn(q, L)
      BY <3>1 DEF AtWork, PageOn, CreationOn
    <3>3. Agrees(L)
      BY <2>5, <2>9, <3>2 DEF StaffInv, Calm, Idle
    <3>4. g.aal2 => profiles'[L] = [role |-> g.role, active |-> g.active]
      BY <2>1, <2>7, <2>9
    <3>5. ~g.aal2 => Agrees(L)'
      BY <2>1, <2>2, <2>7, <3>3 DEF Agrees
    <3>6. QED
      BY <3>2, <3>4, <3>5
  <2>10. /\ g.step \in {"grants", "delete", "insert"} /\ g.login = L /\ PageTyped(g)
         /\ L \in Login => profiles[L] # NoProfile
         /\ \A u \in Login \ {L} : profiles'[u] = profiles[u] /\ access'[u] = access[u]
         /\ g.step # "insert"
    BY <1>2, <2>1, <2>7
  <2>11. L \in Login /\ L \notin unsettled' =>
           /\ \A v \in StaffPage \ {w} : ~PageOn(v, L)
           /\ \A q \in CreateCall : ~CreationOn(q, L)
           /\ g.aal2 => profiles'[L] = [role |-> g.role, active |-> g.active]
           /\ g.aal2 /\ g.step = "insert" => access'[L] = NoAccess
           /\ ~g.aal2 => Agrees(L)'
    BY <2>9, <2>10
  <2>12. DOMAIN profiles' = Login /\ DOMAIN access' = Login /\ creations' = creations
    BY <2>2, <2>7
  <2>13. L = pages[w].login /\ pages' = [pages EXCEPT ![w] = g]
    BY <2>2
  <2>14. QED
    BY <2>5, <2>8, <2>10, <2>11, <2>12, <2>13, PageGoesOn, ZenonT(120)
<1>5. QED
  BY <1>3, <1>4

LEMMA NextWrite ==
  ASSUME StaffInv, NEW w \in StaffPage, Saving(w), NEW step \in {"open", "delete", "insert"},
         pages[w].aal2, pages' = [pages EXCEPT ![w].step = step]
  PROVE  \E g : /\ PageTyped(g) /\ g.step = step /\ g.login = pages[w].login /\ g.aal2
                /\ g.role = pages[w].role /\ g.active = pages[w].active
                /\ pages' = [pages EXCEPT ![w] = g]
<1> DEFINE g == [pages[w] EXCEPT !.step = step]
<1>1. DOMAIN pages[w] = PageFields /\ pages[w].role # "none"
  BY FormShape
<1>2. /\ g.step = step /\ g.login = pages[w].login /\ g.aal2
      /\ g.role = pages[w].role /\ g.active = pages[w].active /\ DOMAIN g = PageFields
  BY <1>1 DEF PageFields
<1>3. pages' = [pages EXCEPT ![w] = g]
  BY DEF StaffInv, StaffShape
<1> HIDE DEF g
<1>4. PageTyped(g)
  BY <1>1, <1>2 DEF PageTyped
<1>5. QED
  BY <1>2, <1>3, <1>4

LEMMA SaveGrantsKeeps ==
  ASSUME StaffInv, NEW w \in StaffPage, NEW ok \in BOOLEAN, SaveGrants(w, ok)
  PROVE  StaffInv'
<1>1. Saving(w) /\ UNCHANGED <<creations, profiles, access>>
  BY DEF SaveGrants, Saving
<1>2. CASE EndEarly(w)
  BY <1>1, <1>2, EndEarlyKeeps
<1>3. CASE /\ pages' = [pages EXCEPT ![w].step = "delete"]
           /\ UNCHANGED unsettled /\ pages[w].aal2
  <2> PICK L : L = pages[w].login
    OBVIOUS
  <2>1. PICK g : /\ PageTyped(g) /\ g.step = "delete" /\ g.login = pages[w].login /\ g.aal2
                 /\ g.role = pages[w].role /\ g.active = pages[w].active
                 /\ pages' = [pages EXCEPT ![w] = g]
    BY <1>1, <1>3, NextWrite
  <2>2. DOMAIN access' = Login /\ \A u \in Login \ {L} : access'[u] = access[u]
    BY <1>1 DEF StaffInv, StaffShape
  <2>3. QED
    BY <1>1, <1>3, <2>1, <2>2, SaveGoesOn
<1>4. QED
  BY <1>2, <1>3 DEF SaveGrants

LEMMA DeleteAccessKeeps ==
  ASSUME StaffInv, NEW w \in StaffPage, NEW ok \in BOOLEAN, DeleteAccess(w, ok)
  PROVE  StaffInv'
<1>1. Saving(w) /\ pages[w].step = "delete" /\ UNCHANGED <<creations, profiles>>
  BY DEF DeleteAccess, Saving
<1>2. pages[w].aal2
  BY <1>1 DEF StaffInv, StaffShape, PageTyped
<1>3. CASE EndEarly(w) /\ UNCHANGED access
  BY <1>1, <1>3, EndEarlyKeeps
<1>4. CASE ok
  <2> PICK L : L = pages[w].login
    OBVIOUS
  <2>1. PICK step \in {"open", "insert"} : pages' = [pages EXCEPT ![w].step = step]
    BY <1>4 DEF DeleteAccess
  <2>2. PICK g : /\ PageTyped(g) /\ g.step = step /\ g.login = pages[w].login /\ g.aal2
                 /\ g.role = pages[w].role /\ g.active = pages[w].active
                 /\ pages' = [pages EXCEPT ![w] = g]
    <3>1. step \in {"open", "delete", "insert"}
      OBVIOUS
    <3>2. QED
      BY <1>1, <1>2, <2>1, <3>1, NextWrite
  <2>3. UNCHANGED unsettled /\ access' = [u \in Login |-> IF u = L THEN NoAccess ELSE access[u]]
    BY <1>4 DEF DeleteAccess, AfterDelete
  <2>4. /\ DOMAIN access' = Login /\ \A u \in Login \ {L} : access'[u] = access[u]
        /\ L \in Login => access'[L] = NoAccess
    BY <2>3
  <2>5. L \in Login => Agrees(L)'
    BY <2>4, NoAccessIs DEF Agrees
  <2>6. UNCHANGED <<creations, profiles, unsettled>>
    BY <1>1, <2>3
  <2>7. CASE step = "open"
    BY <1>1, <1>2, <2>2, <2>4, <2>5, <2>6, <2>7, SaveGoesOn, ZenonT(30)
  <2>8. CASE step = "insert"
    BY <1>1, <1>2, <2>2, <2>4, <2>5, <2>6, <2>8, SaveGoesOn, ZenonT(30)
  <2>9. QED
    BY <2>1, <2>7, <2>8
<1>5. QED
  BY <1>3, <1>4 DEF DeleteAccess

LEMMA InsertAccessKeeps ==
  ASSUME StaffInv, NEW w \in StaffPage, NEW ok \in BOOLEAN, InsertAccess(w, ok)
  PROVE  StaffInv'
<1>1. Saving(w) /\ pages[w].step = "insert" /\ UNCHANGED <<creations, profiles>>
  BY DEF InsertAccess, Saving
<1>2. pages[w].aal2
  BY <1>1 DEF StaffInv, StaffShape, PageTyped
<1>3. CASE EndEarly(w) /\ UNCHANGED access
  BY <1>1, <1>3, EndEarlyKeeps
<1>4. CASE ~(EndEarly(w) /\ UNCHANGED access)
  <2> PICK L : L = pages[w].login
    OBVIOUS
  <2> PICK f : f = pages[w]
    OBVIOUS
  <2> DEFINE row == [role |-> f.role, active |-> f.active]
             rows == [e \in f.entities \cup DOMAIN access[L] |->
                        IF e \in f.entities THEN row ELSE access[L][e]]
  <2>1. /\ access' = [access EXCEPT ![L] = rows]
        /\ pages' = [pages EXCEPT ![w].step = "open"] /\ UNCHANGED unsettled
    BY <1>4 DEF InsertAccess
  <2>2. \A e \in DOMAIN rows : e \notin DOMAIN access[L] => rows[e] = row
    OBVIOUS
  <2>3. row = [role |-> pages[w].role, active |-> pages[w].active]
    OBVIOUS
  <2> HIDE DEF rows, row
  <2>4. PICK g : /\ PageTyped(g) /\ g.step = "open" /\ g.login = pages[w].login /\ g.aal2
                 /\ g.role = pages[w].role /\ g.active = pages[w].active
                 /\ pages' = [pages EXCEPT ![w] = g]
    BY <1>1, <1>2, <2>1, NextWrite
  <2>5. /\ DOMAIN access' = Login /\ \A u \in Login \ {L} : access'[u] = access[u]
        /\ L \in Login => access'[L] = rows
    BY <2>1 DEF StaffInv, StaffShape
  <2>6. L \in Login /\ L \notin unsettled => access[L] = NoAccess /\ profiles[L] = row
    BY <1>1, <1>2, <2>3, PageAlone DEF PageHolds
  <2>7. L \in Login /\ L \notin unsettled => Agrees(L)'
    BY <1>1, <2>2, <2>5, <2>6, NoAccessIs DEF Agrees
  <2>8. UNCHANGED <<creations, profiles, unsettled>>
    BY <1>1, <2>1
  <2>9. DOMAIN access' = Login /\ \A u \in Login \ {L} : access'[u] = access[u]
    BY <2>5
  <2>10. QED
    BY <1>1, <1>2, <2>4, <2>7, <2>8, <2>9, SaveGoesOn
<1>5. QED
  BY <1>3, <1>4

LEMMA StaffStep ==
  ASSUME StaffInv, [StaffNext]_staffVars
  PROVE  StaffInv'
<1>1. CASE UNCHANGED staffVars
  BY <1>1 DEF staffVars, StaffInv, StaffShape, LoginsThere, Calm, Idle, Agrees, CreationTyped,
              PageTyped, CreationHolds, PageHolds, CreationOn, PageOn, Creating, Saving
<1>2. ASSUME NEW q \in CreateCall, CreationStep(q)
      PROVE  StaffInv'
  BY <1>2, AskForLoginKeeps, CreateLoginKeeps, CreationDiesKeeps, UpsertProfileKeeps,
     UpsertGrantsKeeps, GiveAccessKeeps, RollbackKeeps DEF CreationStep
<1>3. ASSUME NEW w \in StaffPage, PageStep(w)
      PROVE  StaffInv'
  BY <1>3, OpenEditKeeps, EditRoleKeeps, EditFormKeeps, SaveProfileKeeps, SaveGrantsKeeps,
     DeleteAccessKeeps, InsertAccessKeeps, LeavePageKeeps DEF PageStep
<1>4. QED
  BY <1>1, <1>2, <1>3 DEF StaffNext

LEMMA StaffStart ==
  ASSUME StaffInit
  PROVE  StaffInv
<1>1. /\ \A q \in CreateCall : creations[q].step = "none"
      /\ \A w \in StaffPage : pages[w].step = "closed" /\ pages[w].login = NoLogin
      /\ \A u \in Login : access[u] = NoAccess
      /\ \A u \in Login : profiles[u] = IF u \in OwnerLogin
                                        THEN [role |-> "owner", active |-> TRUE] ELSE NoProfile
  BY DEF StaffInit, NoCreation, NoForm
<1>2. StaffShape
  BY <1>1 DEF StaffInit, StaffShape, CreationTyped, PageTyped
<1>3. LoginsThere
  BY <1>1, StaffAssumption DEF LoginsThere, Creating, NoProfile
<1>4. \A u \in Login : Calm(u)
  BY <1>1, NoAccessIs DEF Calm, Idle, Agrees, CreationOn, PageOn, Creating, Saving
<1>5. QED
  BY <1>2, <1>3, <1>4 DEF StaffInv

\* For every number of logins, creations and pages: a login that nobody is
\* changing, and on which no change stopped midway or met another, has entity
\* rows that agree with its profile (admin/users/create, saveStaff).
THEOREM SettledAccessAgreesHolds == StaffSpec => []SettledAccessAgrees
<1>1. StaffInv => SettledAccessAgrees
  <2> SUFFICES ASSUME StaffInv, NEW u \in Login, u \notin unsettled, AtWork(u) = {}
               PROVE  Agrees(u)
    BY DEF SettledAccessAgrees, Agrees
  <2>1. Idle(u)
    BY DEF Idle, CreationOn, PageOn, AtWork
  <2>2. QED
    BY <2>1 DEF StaffInv, Calm
<1>2. QED
  BY <1>1, StaffStart, StaffStep, PTL DEF StaffSpec

-----------------------------------------------------------------------------
(* The types of the staff logins *)

\* What a creation at work and a form hold: never the login of an owner to
\* write to, nor the role of an owner to write.
CreationSteps ==
  {"none", "login", "profile", "grants", "access", "rollback", "created", "failed", "refused"}
CreationKnown(c) ==
  /\ c.step \in CreationSteps
  /\ c.step \in {"login", "profile", "grants", "access", "rollback"} =>
       /\ c.login \in Login \ OwnerLogin /\ c.role \in StaffRole
       /\ c.ticks \subseteq FinancePermission /\ c.entities \subseteq StaffEntity

PageKnown(f) ==
  /\ f.step \in {"closed", "open", "grants", "delete", "insert"}
  /\ f.step # "closed" =>
       /\ f.role \in ProfileRole /\ f.active \in BOOLEAN
       /\ f.ticks \subseteq FinancePermission /\ f.entities \subseteq StaffEntity
       /\ f.login \in OwnerLogin => f.role = "owner"
       /\ f.step # "open" => f.role # "owner"

LoginKnown(u) ==
  /\ profiles[u].role \in ProfileRole \cup {"none"} /\ profiles[u].active \in BOOLEAN
  /\ granted[u] = NoTicks \/ granted[u] \subseteq FinancePermission
  /\ DOMAIN access[u] \subseteq StaffEntity
  /\ profiles[u] = NoProfile => granted[u] = NoTicks /\ access[u] = NoAccess
  /\ u \in OwnerLogin <=> profiles[u].role = "owner"

StaffTypes ==
  /\ DOMAIN granted = Login /\ unsettled \subseteq Login
  /\ \A u \in Login : LoginKnown(u)
  /\ \A q \in CreateCall : CreationKnown(creations[q])
  /\ \A w \in StaffPage : PageKnown(pages[w])

LEMMA StaffTypesAreThese == StaffTypes => StaffTypeOK
BY DEF StaffTypes, StaffTypeOK, LoginKnown, CreationKnown, PageKnown, CreationSteps, Exists

LEMMA RolesApart ==
  /\ \A role \in StaffRole : role \in ProfileRole /\ role # "owner" /\ role # "none"
  /\ "owner" \in ProfileRole /\ "read_only" \in ProfileRole /\ "none" \notin ProfileRole
  /\ FirstTicks \subseteq FinancePermission
  /\ \A role : RoleDefaults(role) \subseteq FinancePermission
  /\ NoProfile = [role |-> "none", active |-> FALSE]
BY DEF StaffRole, ProfileRole, FinanceRole, FirstTicks, RoleDefaults, NoProfile,
   FinancePermission, ClaimPermission, VoucherPermission, DocumentPermission

\* Only one login is touched, and it is known afterwards.
LEMMA LoginsButOne ==
  ASSUME StaffTypes, NEW v,
         \A u \in Login \ {v} : /\ profiles'[u] = profiles[u] /\ granted'[u] = granted[u]
                                /\ access'[u] = access[u],
         v \in Login => LoginKnown(v)'
  PROVE  \A u \in Login : LoginKnown(u)'
BY DEF StaffTypes, LoginKnown

LEMMA LoginsStayKnown ==
  ASSUME StaffTypes, UNCHANGED <<profiles, granted, access>>
  PROVE  \A u \in Login : LoginKnown(u)'
BY DEF StaffTypes, LoginKnown

LEMMA CreationTypes ==
  ASSUME StaffInv, StaffTypes, NEW q \in CreateCall, NEW c, CreationKnown(c),
         creations' = [creations EXCEPT ![q] = c], UNCHANGED pages,
         unsettled' \subseteq Login, DOMAIN granted' = Login,
         \A u \in Login : LoginKnown(u)'
  PROVE  StaffTypes'
BY DEF StaffInv, StaffShape, StaffTypes, CreationKnown, PageKnown

LEMMA PageTypes ==
  ASSUME StaffInv, StaffTypes, NEW w \in StaffPage, NEW f, PageKnown(f),
         pages' = [pages EXCEPT ![w] = f], UNCHANGED creations,
         unsettled' \subseteq Login, DOMAIN granted' = Login,
         \A u \in Login : LoginKnown(u)'
  PROVE  StaffTypes'
BY DEF StaffInv, StaffShape, StaffTypes, CreationKnown, PageKnown

\* A creation at work: what it knows, and that only its step changes.
LEMMA CreationAtWork ==
  ASSUME StaffInv, StaffTypes, NEW q \in CreateCall,
         creations[q].step \in {"login", "profile", "grants", "access", "rollback"}
  PROVE  /\ creations[q].login \in Login \ OwnerLogin /\ creations[q].role \in StaffRole
         /\ creations[q].ticks \subseteq FinancePermission
         /\ creations[q].entities \subseteq StaffEntity
         /\ creations[q].step # "login" => profiles[creations[q].login] # NoProfile
         /\ \A step \in CreationSteps : CreationKnown([creations[q] EXCEPT !.step = step])
<1>1. DOMAIN creations[q] = CreationFields
  BY CreationShape
<1> QED BY <1>1 DEF StaffInv, StaffTypes, LoginsThere, Creating, CreationKnown, CreationFields

LEMMA AskForLoginTypes ==
  ASSUME StaffInv, StaffTypes, NEW q \in CreateCall, NEW u \in Login, NEW role \in StaffRole,
         NEW entities \in SUBSET StaffEntity, NEW aal2, NEW ticks \in TicksFor(role),
         NEW more \in SUBSET Ticked, AskForLogin(q, u, role, ticks \cup more, entities, aal2)
  PROVE  StaffTypes'
<1> DEFINE c == [step |-> "login", login |-> u, role |-> role, ticks |-> ticks \cup more,
                 entities |-> entities, aal2 |-> aal2]
<1>1. u \notin OwnerLogin
  BY RolesApart DEF AskForLogin, Exists, StaffTypes, LoginKnown
<1>2. ticks \cup more \subseteq FinancePermission
  BY RolesApart, StaffAssumption DEF TicksFor
<1>3. CreationKnown(c)
  BY <1>1, <1>2 DEF CreationKnown, CreationSteps
<1>4. creations' = [creations EXCEPT ![q] = c]
      /\ UNCHANGED <<profiles, granted, access, pages, unsettled>>
  BY DEF AskForLogin
<1> QED BY <1>3, <1>4, LoginsStayKnown, CreationTypes DEF StaffTypes

LEMMA CreateLoginTypes ==
  ASSUME StaffInv, StaffTypes, NEW q \in CreateCall, CreateLogin(q),
         NEW u, u = creations[q].login
  PROVE  StaffTypes'
<1> DEFINE c(step) == [creations[q] EXCEPT !.step = step]
<1>1. creations[q].step = "login" /\ UNCHANGED <<granted, access, pages, unsettled>>
  BY DEF CreateLogin
<1>2. u \in Login \ OwnerLogin /\ \A step \in CreationSteps : CreationKnown(c(step))
  BY <1>1, CreationAtWork
<1>3. CASE creations' = [creations EXCEPT ![q].step = "refused"] /\ UNCHANGED profiles
  <2>1. creations' = [creations EXCEPT ![q] = c("refused")] /\ CreationKnown(c("refused"))
    BY <1>2, <1>3 DEF CreationSteps
  <2> QED BY <2>1, <1>1, <1>3, LoginsStayKnown, CreationTypes DEF StaffTypes
<1>4. CASE /\ creations' = [creations EXCEPT ![q].step = "profile"]
           /\ profiles' = [profiles EXCEPT ![u] = [role |-> "read_only", active |-> TRUE]]
  <2>1. creations' = [creations EXCEPT ![q] = c("profile")] /\ CreationKnown(c("profile"))
    BY <1>2, <1>4 DEF CreationSteps
  <2>2. profiles'[u] = [role |-> "read_only", active |-> TRUE]
        /\ \A v \in Login \ {u} : profiles'[v] = profiles[v]
    BY <1>2, <1>4 DEF StaffInv, StaffShape
  <2>3. LoginKnown(u)'
    <3>1. LoginKnown(u) /\ granted'[u] = granted[u] /\ access'[u] = access[u]
      BY <1>1, <1>2 DEF StaffTypes
    <3>2. profiles'[u] # NoProfile
      BY <2>2, RolesApart
    <3> QED BY <3>1, <3>2, <1>2, <2>2, RolesApart DEF LoginKnown
  <2>4. \A v \in Login : LoginKnown(v)'
    BY <1>1, <2>2, <2>3, LoginsButOne
  <2> QED BY <2>1, <2>4, <1>1, CreationTypes DEF StaffTypes
<1> QED BY <1>3, <1>4 DEF CreateLogin

LEMMA CreationDiesTypes ==
  ASSUME StaffInv, StaffTypes, NEW q \in CreateCall, CreationDies(q)
  PROVE  StaffTypes'
<1>1. creations[q].step \in {"login", "profile", "grants", "access", "rollback"}
  BY DEF CreationDies, Creating
<1>2. creations' = [creations EXCEPT ![q] = [creations[q] EXCEPT !.step = "failed"]]
      /\ UNCHANGED <<profiles, granted, access, pages>>
  BY DEF CreationDies, MoveCreation
<1>3. unsettled' \subseteq Login
  BY <1>1, CreationAtWork DEF CreationDies, StaffTypes
<1> QED BY <1>1, <1>2, <1>3, CreationAtWork, LoginsStayKnown, CreationTypes
        DEF StaffTypes, CreationSteps

LEMMA UpsertProfileTypes ==
  ASSUME StaffInv, StaffTypes, NEW q \in CreateCall, NEW ok, UpsertProfile(q, ok),
         NEW u, u = creations[q].login
  PROVE  StaffTypes'
<1> DEFINE c == creations[q]
<1>1. c.step = "profile" /\ UNCHANGED <<granted, access, pages, unsettled>>
  BY DEF UpsertProfile
<1>2. /\ u \in Login \ OwnerLogin /\ c.role \in StaffRole
      /\ \A step \in CreationSteps : CreationKnown([c EXCEPT !.step = step])
  BY <1>1, CreationAtWork
<1>3. CASE MoveCreation(q, "rollback") /\ UNCHANGED profiles
  <2>1. creations' = [creations EXCEPT ![q] = [c EXCEPT !.step = "rollback"]]
        /\ CreationKnown([c EXCEPT !.step = "rollback"])
    BY <1>2, <1>3 DEF MoveCreation, CreationSteps
  <2> QED BY <2>1, <1>1, <1>3, LoginsStayKnown, CreationTypes DEF StaffTypes
<1>4. CASE /\ profiles' = [profiles EXCEPT ![u] = [role |-> c.role, active |-> TRUE]]
           /\ MoveCreation(q, "grants")
  <2>1. creations' = [creations EXCEPT ![q] = [c EXCEPT !.step = "grants"]]
        /\ CreationKnown([c EXCEPT !.step = "grants"])
    BY <1>2, <1>4 DEF MoveCreation, CreationSteps
  <2>2. profiles'[u] = [role |-> c.role, active |-> TRUE]
        /\ \A v \in Login \ {u} : profiles'[v] = profiles[v]
    BY <1>2, <1>4 DEF StaffInv, StaffShape
  <2>3. LoginKnown(u)'
    <3>1. LoginKnown(u) /\ granted'[u] = granted[u] /\ access'[u] = access[u]
      BY <1>1, <1>2 DEF StaffTypes
    <3>2. profiles'[u] # NoProfile
      BY <1>2, <2>2, RolesApart
    <3> QED BY <3>1, <3>2, <1>2, <2>2, RolesApart DEF LoginKnown
  <2>4. \A v \in Login : LoginKnown(v)'
    BY <1>1, <2>2, <2>3, LoginsButOne
  <2> QED BY <2>1, <2>4, <1>1, CreationTypes DEF StaffTypes
<1> QED BY <1>3, <1>4 DEF UpsertProfile

LEMMA UpsertGrantsTypes ==
  ASSUME StaffInv, StaffTypes, NEW q \in CreateCall, NEW ok, UpsertGrants(q, ok),
         NEW u, u = creations[q].login
  PROVE  StaffTypes'
<1> DEFINE c == creations[q]
           next == IF c.entities = {} THEN "created" ELSE "access"
<1>1. c.step = "grants" /\ UNCHANGED <<profiles, access, pages, unsettled>>
  BY DEF UpsertGrants
<1>2. /\ u \in Login \ OwnerLogin /\ c.ticks \subseteq FinancePermission
      /\ profiles[u] # NoProfile
      /\ \A step \in CreationSteps : CreationKnown([c EXCEPT !.step = step])
  BY <1>1, CreationAtWork
<1>3. CASE MoveCreation(q, "rollback") /\ UNCHANGED granted
  <2>1. creations' = [creations EXCEPT ![q] = [c EXCEPT !.step = "rollback"]]
        /\ CreationKnown([c EXCEPT !.step = "rollback"])
    BY <1>2, <1>3 DEF MoveCreation, CreationSteps
  <2> QED BY <2>1, <1>1, <1>3, LoginsStayKnown, CreationTypes DEF StaffTypes
<1>4. CASE /\ granted' = [granted EXCEPT ![u] = c.ticks \ {"can_view_bank_balances"}]
           /\ MoveCreation(q, next)
  <2>1. creations' = [creations EXCEPT ![q] = [c EXCEPT !.step = next]]
        /\ CreationKnown([c EXCEPT !.step = next])
    BY <1>2, <1>4 DEF MoveCreation, CreationSteps
  <2>2. granted'[u] \subseteq FinancePermission /\ DOMAIN granted' = Login
        /\ \A v \in Login \ {u} : granted'[v] = granted[v]
    BY <1>2, <1>4 DEF StaffTypes
  <2>3. LoginKnown(u)'
    BY <1>1, <1>2, <2>2 DEF StaffTypes, LoginKnown
  <2>4. \A v \in Login : LoginKnown(v)'
    BY <1>1, <2>2, <2>3, LoginsButOne
  <2> QED BY <2>1, <2>2, <2>4, <1>1, CreationTypes DEF StaffTypes
<1> QED BY <1>3, <1>4 DEF UpsertGrants

LEMMA GiveAccessTypes ==
  ASSUME StaffInv, StaffTypes, NEW q \in CreateCall, NEW ok, GiveAccess(q, ok),
         NEW u, u = creations[q].login
  PROVE  StaffTypes'
<1> DEFINE c == creations[q]
           more == [e \in c.entities \cup DOMAIN access[u] |->
                      IF e \in c.entities THEN [role |-> c.role, active |-> TRUE]
                      ELSE access[u][e]]
<1>1. c.step = "access" /\ UNCHANGED <<profiles, granted, pages, unsettled>>
  BY DEF GiveAccess
<1>2. /\ u \in Login \ OwnerLogin /\ c.entities \subseteq StaffEntity
      /\ profiles[u] # NoProfile
      /\ \A step \in CreationSteps : CreationKnown([c EXCEPT !.step = step])
  BY <1>1, CreationAtWork
<1>3. CASE MoveCreation(q, "rollback") /\ UNCHANGED access
  <2>1. creations' = [creations EXCEPT ![q] = [c EXCEPT !.step = "rollback"]]
        /\ CreationKnown([c EXCEPT !.step = "rollback"])
    BY <1>2, <1>3 DEF MoveCreation, CreationSteps
  <2> QED BY <2>1, <1>1, <1>3, LoginsStayKnown, CreationTypes DEF StaffTypes
<1>4. CASE access' = [access EXCEPT ![u] = more] /\ MoveCreation(q, "created")
  <2>1. creations' = [creations EXCEPT ![q] = [c EXCEPT !.step = "created"]]
        /\ CreationKnown([c EXCEPT !.step = "created"])
    BY <1>2, <1>4 DEF MoveCreation, CreationSteps
  <2>2. LoginKnown(u)
    BY <1>2 DEF StaffTypes
  <2>3. DOMAIN more \subseteq StaffEntity
    BY <1>2, <2>2 DEF LoginKnown
  <2>4. access'[u] = more /\ \A v \in Login \ {u} : access'[v] = access[v]
    BY <1>2, <1>4 DEF StaffInv, StaffShape
  <2> HIDE DEF more
  <2>5. LoginKnown(u)'
    BY <1>1, <1>2, <2>2, <2>3, <2>4 DEF LoginKnown
  <2>6. \A v \in Login : LoginKnown(v)'
    BY <1>1, <2>4, <2>5, LoginsButOne
  <2> QED BY <2>1, <2>6, <1>1, CreationTypes DEF StaffTypes
<1> QED BY <1>3, <1>4 DEF GiveAccess

LEMMA RollbackTypes ==
  ASSUME StaffInv, StaffTypes, NEW q \in CreateCall, NEW ok \in BOOLEAN,
         RollbackCreatedUser(q, ok),
         NEW u, u = creations[q].login
  PROVE  StaffTypes'
<1> DEFINE c == creations[q]
<1>1. c.step = "rollback"
  BY DEF RollbackCreatedUser
<1>2. u \in Login \ OwnerLogin /\ \A step \in CreationSteps : CreationKnown([c EXCEPT !.step = step])
  BY <1>1, CreationAtWork
<1>3. \A p \in CreateCall : CreationKnown(creations'[p])
  <2>1. creations' = [creations EXCEPT ![q] = [c EXCEPT !.step = "failed"]]
        /\ CreationKnown([c EXCEPT !.step = "failed"])
    BY <1>2 DEF RollbackCreatedUser, MoveCreation, CreationSteps
  <2> QED BY <2>1 DEF StaffInv, StaffShape, StaffTypes
<1>4. \A w \in StaffPage : PageKnown(pages'[w])
  <2> SUFFICES ASSUME NEW w \in StaffPage PROVE PageKnown(pages'[w])
    OBVIOUS
  <2>1. pages'[w] = IF ok /\ pages[w].login = u THEN [pages[w] EXCEPT !.login = NoLogin]
                    ELSE pages[w]
    BY DEF RollbackCreatedUser
  <2>2. PageKnown(pages[w]) /\ PageTyped(pages[w])
    BY DEF StaffInv, StaffShape, StaffTypes
  <2>3. CASE ok /\ pages[w].login = u
    <3>1. pages[w].step # "closed" /\ DOMAIN pages[w] = PageFields
      BY <1>2, <2>2, <2>3, StaffAssumption DEF PageTyped
    <3>2. NoLogin \notin OwnerLogin
      BY StaffAssumption
    <3> QED BY <2>1, <2>2, <2>3, <3>1, <3>2 DEF PageKnown, PageFields
  <2> QED BY <2>1, <2>2, <2>3
<1>5. unsettled' \subseteq Login
  BY <1>2 DEF RollbackCreatedUser, StaffTypes
<1>6. DOMAIN granted' = Login /\ \A v \in Login : LoginKnown(v)'
  <2>1. CASE ok
    <3>1. /\ profiles' = [profiles EXCEPT ![u] = NoProfile]
          /\ granted' = [granted EXCEPT ![u] = NoTicks]
          /\ access' = [access EXCEPT ![u] = NoAccess]
      BY <2>1 DEF RollbackCreatedUser
    <3>2. /\ profiles'[u] = NoProfile /\ granted'[u] = NoTicks /\ access'[u] = NoAccess
          /\ DOMAIN granted' = Login
          /\ \A v \in Login \ {u} : /\ profiles'[v] = profiles[v] /\ granted'[v] = granted[v]
                                     /\ access'[v] = access[v]
      BY <1>2, <3>1 DEF StaffInv, StaffShape, StaffTypes
    <3>3. LoginKnown(u)'
      BY <1>2, <3>2, RolesApart, NoAccessIs DEF LoginKnown
    <3> QED BY <3>2, <3>3, LoginsButOne
  <2>2. CASE ~ok
    <3>1. UNCHANGED <<profiles, granted, access>>
      BY <2>2 DEF RollbackCreatedUser
    <3> QED BY <3>1, LoginsStayKnown DEF StaffTypes
  <2> QED BY <2>1, <2>2
<1> QED BY <1>3, <1>4, <1>5, <1>6 DEF StaffTypes

\* A form open or being saved: what it knows, and that it goes on knowing it.
LEMMA FormAtWork ==
  ASSUME StaffInv, StaffTypes, NEW w \in StaffPage, Form(w) \/ Saving(w)
  PROVE  /\ DOMAIN pages[w] = PageFields /\ PageKnown(pages[w])
         /\ pages[w].role \in ProfileRole /\ pages[w].role # "owner"
         /\ pages[w].active \in BOOLEAN
         /\ pages[w].ticks \subseteq FinancePermission /\ pages[w].entities \subseteq StaffEntity
         /\ pages[w].login \notin OwnerLogin
         /\ \A step \in {"open", "grants", "delete", "insert"} :
               PageKnown([pages[w] EXCEPT !.step = step])
<1>1. DOMAIN pages[w] = PageFields /\ PageKnown(pages[w])
  BY FormShape DEF StaffTypes
<1>2. pages[w].step # "closed" /\ pages[w].role # "owner"
  BY <1>1 DEF Form, Saving, PageKnown
<1> QED BY <1>1, <1>2 DEF PageKnown, PageFields

LEMMA OpenEditTypes ==
  ASSUME StaffInv, StaffTypes, NEW w \in StaffPage, NEW u \in Login, NEW aal2,
         OpenEdit(w, u, aal2)
  PROVE  StaffTypes'
<1> DEFINE f == [step |-> "open", login |-> u, role |-> profiles[u].role,
                 active |-> profiles[u].active,
                 ticks |-> IF granted[u] = NoTicks THEN RoleDefaults(profiles[u].role)
                           ELSE granted[u],
                 entities |-> {e \in DOMAIN access[u] : access[u][e].active}, aal2 |-> aal2]
<1>1. LoginKnown(u) /\ profiles[u] # NoProfile /\ profiles[u].role # "none"
  BY DEF OpenEdit, Exists, StaffTypes, StaffInv, LoginsThere
<1>2. PageKnown(f)
  BY <1>1, RolesApart DEF LoginKnown, PageKnown
<1>3. pages' = [pages EXCEPT ![w] = f]
      /\ UNCHANGED <<profiles, granted, access, creations, unsettled>>
  BY DEF OpenEdit
<1> QED BY <1>2, <1>3, LoginsStayKnown, PageTypes DEF StaffTypes

LEMMA EditRoleTypes ==
  ASSUME StaffInv, StaffTypes, NEW w \in StaffPage, NEW role \in StaffRole, EditRole(w, role)
  PROVE  StaffTypes'
<1>1. Form(w) /\ UNCHANGED <<profiles, granted, access, creations, unsettled>>
      /\ pages' = [pages EXCEPT ![w].role = role, ![w].ticks = RoleDefaults(role)]
  BY DEF EditRole
<1>2. PICK f : f = [pages[w] EXCEPT !.role = role, !.ticks = RoleDefaults(role)]
  OBVIOUS
<1>3. pages' = [pages EXCEPT ![w] = f]
  BY <1>1, <1>2 DEF StaffInv, StaffShape
<1>4. DOMAIN pages[w] = PageFields /\ PageKnown(pages[w]) /\ pages[w].login \notin OwnerLogin
      /\ pages[w].step = "open"
  BY <1>1, FormAtWork DEF Form
<1>5. /\ f.step = "open" /\ f.role = role /\ f.ticks = RoleDefaults(role)
      /\ f.login = pages[w].login /\ f.active = pages[w].active
      /\ f.entities = pages[w].entities
  BY <1>2, <1>4 DEF PageFields
<1>6. PageKnown(f)
  BY <1>4, <1>5, RolesApart DEF PageKnown
<1> QED BY <1>1, <1>3, <1>6, LoginsStayKnown, PageTypes DEF StaffTypes

LEMMA EditFormTypes ==
  ASSUME StaffInv, StaffTypes, NEW w \in StaffPage, NEW active \in BOOLEAN,
         NEW off, NEW on \in SUBSET Ticked, NEW entities \in SUBSET StaffEntity,
         EditForm(w, active, (pages[w].ticks \ off) \cup on, entities)
  PROVE  StaffTypes'
<1>1. PICK ticks : ticks = (pages[w].ticks \ off) \cup on
  OBVIOUS
<1>2. Form(w) /\ UNCHANGED <<profiles, granted, access, creations, unsettled>>
      /\ pages' = [pages EXCEPT ![w].active = active, ![w].ticks = ticks,
                                ![w].entities = entities]
  BY <1>1 DEF EditForm
<1>3. PICK f : f = [pages[w] EXCEPT !.active = active, !.ticks = ticks, !.entities = entities]
  OBVIOUS
<1>4. pages' = [pages EXCEPT ![w] = f]
  BY <1>2, <1>3 DEF StaffInv, StaffShape
<1>5. DOMAIN pages[w] = PageFields /\ PageKnown(pages[w]) /\ pages[w].login \notin OwnerLogin
      /\ pages[w].step = "open" /\ pages[w].ticks \subseteq FinancePermission
  BY <1>2, FormAtWork DEF Form
<1>6. ticks \subseteq FinancePermission
  BY <1>1, <1>5, StaffAssumption
<1>7. /\ f.step = "open" /\ f.role = pages[w].role /\ f.ticks = ticks
      /\ f.login = pages[w].login /\ f.active = active /\ f.entities = entities
  BY <1>3, <1>5 DEF PageFields
<1>8. PageKnown(f)
  BY <1>5, <1>6, <1>7 DEF PageKnown
<1> QED BY <1>2, <1>4, <1>8, LoginsStayKnown, PageTypes DEF StaffTypes

LEMMA LeavePageTypes ==
  ASSUME StaffInv, StaffTypes, NEW w \in StaffPage, LeavePage(w)
  PROVE  StaffTypes'
<1>1. PageKnown(NoForm)
  BY DEF PageKnown, NoForm
<1>2. unsettled' \subseteq Login
  BY DEF LeavePage, StaffTypes
<1>3. pages' = [pages EXCEPT ![w] = NoForm] /\ UNCHANGED <<profiles, granted, access, creations>>
  BY DEF LeavePage
<1> QED BY <1>1, <1>2, <1>3, LoginsStayKnown, PageTypes DEF StaffTypes

\* A save that stops, and one that goes on to its next write.
LEMMA StopTypes ==
  ASSUME StaffInv, StaffTypes, NEW w \in StaffPage, Saving(w), EndEarly(w),
         UNCHANGED <<profiles, granted, access, creations>>
  PROVE  StaffTypes'
<1>1. PageKnown([pages[w] EXCEPT !.step = "open"])
  BY FormAtWork
<1>2. unsettled' \subseteq Login
  BY DEF EndEarly, StaffTypes
<1>3. pages' = [pages EXCEPT ![w] = [pages[w] EXCEPT !.step = "open"]]
  BY DEF EndEarly
<1> QED BY <1>1, <1>2, <1>3, LoginsStayKnown, PageTypes DEF StaffTypes

LEMMA WriteTypes ==
  ASSUME StaffInv, StaffTypes, NEW w \in StaffPage, Form(w) \/ Saving(w),
         NEW step \in {"open", "grants", "delete", "insert"},
         pages' = [pages EXCEPT ![w].step = step], UNCHANGED creations,
         unsettled' \subseteq Login, DOMAIN granted' = Login,
         NEW u, \A v \in Login \ {u} : /\ profiles'[v] = profiles[v]
                                      /\ granted'[v] = granted[v] /\ access'[v] = access[v],
         u \in Login => LoginKnown(u)'
  PROVE  StaffTypes'
<1>1. \A v \in Login : LoginKnown(v)'
  BY LoginsButOne
<1>2. PageKnown([pages[w] EXCEPT !.step = step])
  BY FormAtWork
<1> QED BY <1>1, <1>2, PageTypes

LEMMA SaveProfileTypes ==
  ASSUME StaffInv, StaffTypes, NEW w \in StaffPage, NEW ok, SaveProfile(w, ok),
         NEW u, u = pages[w].login
  PROVE  StaffTypes'
<1> DEFINE f == pages[w]
<1>1. Form(w) /\ UNCHANGED <<granted, access, creations>>
  BY DEF SaveProfile
<1>2. CASE UNCHANGED <<profiles, pages, unsettled>>
  <2>1. \A v \in Login : LoginKnown(v)'
    BY <1>1, <1>2, LoginsStayKnown
  <2> QED BY <1>1, <1>2, <2>1 DEF StaffTypes, CreationKnown, PageKnown
<1>3. CASE /\ profiles' = IF f.aal2 /\ Exists(f.login)
                          THEN [profiles EXCEPT ![f.login] = [role |-> f.role, active |-> f.active]]
                          ELSE profiles
           /\ pages' = [pages EXCEPT ![w].step = "grants"]
           /\ unsettled' = IF Exists(f.login) THEN Meeting(f.login) ELSE unsettled
  <2>1. unsettled' \subseteq Login
    BY <1>3 DEF Meeting, Exists, StaffTypes
  <2>2. \A v \in Login \ {u} : profiles'[v] = profiles[v]
    BY <1>3 DEF StaffInv, StaffShape
  <2>3. ASSUME u \in Login PROVE LoginKnown(u)'
    <3>1. LoginKnown(u) /\ granted'[u] = granted[u] /\ access'[u] = access[u]
      BY <1>1, <2>3 DEF StaffTypes
    <3>2. CASE f.aal2 /\ Exists(f.login)
      <4>1. profiles'[u] = [role |-> f.role, active |-> f.active]
        BY <1>3, <2>3, <3>2 DEF StaffInv, StaffShape
      <4>2. /\ f.role \in ProfileRole /\ f.role # "owner" /\ f.active \in BOOLEAN
            /\ u \notin OwnerLogin /\ profiles[u] # NoProfile
        BY <1>1, <3>2, FormAtWork DEF Exists
      <4>3. profiles'[u] # NoProfile
        BY <4>1, <4>2, RolesApart
      <4> QED BY <3>1, <4>1, <4>2, <4>3 DEF LoginKnown
    <3>3. CASE ~(f.aal2 /\ Exists(f.login))
      BY <1>3, <3>1, <3>3 DEF LoginKnown
    <3> QED BY <3>2, <3>3
  <2> QED BY <1>1, <1>3, <2>1, <2>2, <2>3, WriteTypes DEF StaffTypes
<1> QED BY <1>2, <1>3 DEF SaveProfile

LEMMA SaveGrantsTypes ==
  ASSUME StaffInv, StaffTypes, NEW w \in StaffPage, NEW ok, SaveGrants(w, ok),
         NEW u, u = pages[w].login
  PROVE  StaffTypes'
<1> DEFINE f == pages[w]
<1>1. Saving(w) /\ UNCHANGED <<profiles, access, creations>>
  BY DEF SaveGrants, Saving
<1>2. CASE EndEarly(w) /\ UNCHANGED granted
  BY <1>1, <1>2, StopTypes
<1>3. CASE /\ Exists(u)
           /\ granted' = [granted EXCEPT ![u] = f.ticks \ {"can_view_bank_balances"}]
           /\ pages' = [pages EXCEPT ![w].step = "delete"]
           /\ UNCHANGED unsettled
  <2>1. u \in Login /\ profiles[u] # NoProfile /\ f.ticks \subseteq FinancePermission
    BY <1>1, <1>3, FormAtWork DEF Exists
  <2>2. granted'[u] \subseteq FinancePermission /\ DOMAIN granted' = Login
        /\ \A v \in Login \ {u} : granted'[v] = granted[v]
    BY <1>3, <2>1 DEF StaffTypes
  <2>3. LoginKnown(u)'
    BY <1>1, <2>1, <2>2 DEF StaffTypes, LoginKnown
  <2> QED BY <1>1, <1>3, <2>2, <2>3, WriteTypes DEF StaffTypes
<1> QED BY <1>2, <1>3 DEF SaveGrants

LEMMA DeleteAccessTypes ==
  ASSUME StaffInv, StaffTypes, NEW w \in StaffPage, NEW ok, DeleteAccess(w, ok),
         NEW u, u = pages[w].login
  PROVE  StaffTypes'
<1> DEFINE f == pages[w]
           next == IF f.entities = {} THEN "open" ELSE "insert"
<1>1. Saving(w) /\ UNCHANGED <<profiles, granted, creations>>
  BY DEF DeleteAccess, Saving
<1>2. CASE EndEarly(w) /\ UNCHANGED access
  BY <1>1, <1>2, StopTypes
<1>3. CASE /\ access' = [v \in Login |-> IF v = f.login THEN AfterDelete(f, access[v])
                                        ELSE access[v]]
           /\ pages' = [pages EXCEPT ![w].step = next]
           /\ UNCHANGED unsettled
  <2>1. /\ u \in Login => access'[u] = NoAccess
        /\ \A v \in Login \ {u} : access'[v] = access[v]
    BY <1>3 DEF AfterDelete
  <2>2. u \in Login => LoginKnown(u)'
    BY <1>1, <2>1, NoAccessIs DEF StaffTypes, LoginKnown
  <2> HIDE DEF next
  <2>3. next \in {"open", "grants", "delete", "insert"}
    BY DEF next
  <2> QED BY <1>1, <1>3, <2>1, <2>2, <2>3, WriteTypes DEF StaffTypes
<1> QED BY <1>2, <1>3 DEF DeleteAccess

LEMMA InsertAccessTypes ==
  ASSUME StaffInv, StaffTypes, NEW w \in StaffPage, NEW ok, InsertAccess(w, ok),
         NEW u, u = pages[w].login
  PROVE  StaffTypes'
<1> DEFINE f == pages[w]
           more == [e \in f.entities \cup DOMAIN access[f.login] |->
                      IF e \in f.entities THEN [role |-> f.role, active |-> f.active]
                      ELSE access[f.login][e]]
<1>1. Saving(w) /\ UNCHANGED <<profiles, granted, creations>>
  BY DEF InsertAccess, Saving
<1>2. CASE EndEarly(w) /\ UNCHANGED access
  BY <1>1, <1>2, StopTypes
<1>3. CASE /\ Exists(f.login) /\ access' = [access EXCEPT ![f.login] = more]
           /\ pages' = [pages EXCEPT ![w].step = "open"] /\ UNCHANGED unsettled
  <2>1. u \in Login /\ profiles[u] # NoProfile /\ f.entities \subseteq StaffEntity
        /\ LoginKnown(u)
    BY <1>1, <1>3, FormAtWork DEF Exists, StaffTypes
  <2>2. DOMAIN more \subseteq StaffEntity
    BY <2>1 DEF LoginKnown
  <2>3. access'[u] = more /\ \A v \in Login \ {u} : access'[v] = access[v]
    BY <1>3, <2>1 DEF StaffInv, StaffShape
  <2>4. LoginKnown(u)'
    <3> HIDE DEF more
    <3> QED BY <1>1, <2>1, <2>2, <2>3 DEF LoginKnown
  <2> HIDE DEF more
  <2> QED BY <1>1, <1>3, <2>3, <2>4, WriteTypes DEF StaffTypes
<1> QED BY <1>2, <1>3 DEF InsertAccess

LEMMA StaffTypesStep ==
  ASSUME StaffInv, StaffTypes, [StaffNext]_staffVars
  PROVE  StaffTypes'
<1>1. CASE UNCHANGED staffVars
  BY <1>1 DEF staffVars, StaffTypes, LoginKnown, CreationKnown, PageKnown
<1>2. ASSUME NEW q \in CreateCall, CreationStep(q)
      PROVE  StaffTypes'
  <2>1. PICK u : u = creations[q].login
    OBVIOUS
  <2> QED BY <1>2, <2>1, AskForLoginTypes, CreateLoginTypes, CreationDiesTypes, UpsertProfileTypes,
             UpsertGrantsTypes, GiveAccessTypes, RollbackTypes DEF CreationStep
<1>3. ASSUME NEW w \in StaffPage, PageStep(w)
      PROVE  StaffTypes'
  <2>1. PICK u : u = pages[w].login
    OBVIOUS
  <2> QED BY <1>3, <2>1, OpenEditTypes, EditRoleTypes, EditFormTypes, SaveProfileTypes,
             SaveGrantsTypes, DeleteAccessTypes, InsertAccessTypes, LeavePageTypes DEF PageStep
<1> QED BY <1>1, <1>2, <1>3 DEF StaffNext

LEMMA StaffTypesStart ==
  ASSUME StaffInit
  PROVE  StaffTypes
<1>1. ASSUME NEW u \in Login PROVE LoginKnown(u)
  BY RolesApart, NoAccessIs DEF StaffInit, LoginKnown
<1>2. \A q \in CreateCall : CreationKnown(creations[q])
  BY DEF StaffInit, NoCreation, CreationKnown, CreationSteps
<1>3. \A w \in StaffPage : PageKnown(pages[w])
  BY DEF StaffInit, NoForm, PageKnown
<1> QED BY <1>1, <1>2, <1>3 DEF StaffInit, StaffTypes

\* Whoever creates and edits logins at the same time, and wherever creations
\* and saves stop: the owners stay owners and nobody becomes one, permissions
\* and entities are such, and a login that is gone leaves no permissions and
\* no entity rows behind.
THEOREM StaffTypeCorrect == StaffSpec => []StaffTypeOK
<1>1. StaffInv /\ StaffTypes /\ [StaffNext]_staffVars => StaffInv' /\ StaffTypes'
  BY StaffStep, StaffTypesStep
<1> QED BY <1>1, StaffStart, StaffTypesStart, StaffTypesAreThese, PTL DEF StaffSpec

-----------------------------------------------------------------------------
(* The two beside each other, as TLC checks them *)

\* A step of one part is a step of its component; the other does not move.
LEMMA PartStep ==
  ASSUME [DisbursementStep]_<<part, vars, staffVars>>
  PROVE  [DisbursementNext]_vars /\ [StaffNext]_staffVars
<1>1. CASE UNCHANGED <<part, vars, staffVars>>
  BY <1>1
<1>2. CASE DisbursementStep
  <2>1. CASE part = "logins"
    <3>1. LoginStep
      BY <1>2, <2>1 DEF DisbursementStep
    <3> QED BY <1>2, <2>1, <3>1 DEF DisbursementStep, LoginStep
  <2>2. CASE part # "logins"
    <3>1. UNCHANGED staffVars
      BY <1>2, <2>2 DEF DisbursementStep
    <3>2. ClaimStep \/ Reimbursement \/ DisbursementNext
      BY <1>2, <2>2 DEF DisbursementStep
    <3>3. Reimbursement => VoucherStep
      BY DEF Reimbursement, VoucherStep
    <3> QED BY <3>1, <3>2, <3>3 DEF DisbursementNext
  <2> QED BY <2>1, <2>2
<1> QED BY <1>1, <1>2

\* In whichever part a behaviour is, the claim, its vouchers and the staff
\* logins all keep their types, the ones that move and the ones that rest.
THEOREM EveryTypeCorrect == MCSpec => []EveryTypeOK
<1>1. MCInit => IInv /\ StaffInv /\ StaffTypes
  BY IInvInit, StaffStart, StaffTypesStart DEF MCInit
<1>2. /\ IInv /\ StaffInv /\ StaffTypes /\ [DisbursementStep]_<<part, vars, staffVars>>
      => IInv' /\ StaffInv' /\ StaffTypes'
  BY PartStep, IInvNext, StaffStep, StaffTypesStep
<1>3. IInv /\ StaffTypes => EveryTypeOK
  BY TypedIsTypeOK, StaffTypesAreThese DEF IInv, EveryTypeOK
<1> QED BY <1>1, <1>2, <1>3, PTL DEF MCSpec
=============================================================================
