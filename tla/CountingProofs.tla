--------------------------- MODULE CountingProofs ---------------------------
(***************************************************************************)
(* Proofs about the components whose invariants count: the admissions of a *)
(* key within a window, the units matched of a bank transaction, the lines *)
(* of a statement in the account.  Whatever is counted is a finite set, so *)
(* that one added and one left out are steps of a proof; the keys, times,  *)
(* allocations, files and requests are any.                                *)
(***************************************************************************)
EXTENDS RequestGate, BankAllocation, StatementImport, FiniteSetTheorems, TLAPS

-----------------------------------------------------------------------------
(* The limiter *)

\* The admissions of a key within the window that starts at a time.
Within(key, from) ==
  {i \in DOMAIN admitted[key] :
     from <= admitted[key][i] /\ admitted[key][i] < from + Window}

\* The limiter forgets only what it will not ask for again.
RemembersRecent ==
  \A k \in KeyId : \A i \in DOMAIN admitted[k] :
     admitted[k][i] > now - Window => i \in hits[k]

AdmittedByNow == \A k \in KeyId : \A i \in DOMAIN admitted[k] : admitted[k][i] <= now

GateInv == GateTypeOK /\ RemembersRecent /\ AdmittedByNow /\ WithinBudget

LEMMA SettingsType == \A c \in Configs : c.limit \in Nat
BY GateAssumption, SMTT(30) DEF Config

\* A set of positions of a sequence is finite.
LEMMA PositionsFinite ==
  ASSUME GateTypeOK, NEW k \in KeyId, NEW P \in SUBSET DOMAIN admitted[k]
  PROVE  IsFiniteSet(P) /\ Cardinality(P) \in Nat
<1>1. admitted[k] \in Seq(0..MaxNow)
  BY DEF GateTypeOK
<1>2. DOMAIN admitted[k] = 1..Len(admitted[k]) /\ Len(admitted[k]) \in Nat
  BY <1>1
<1>3. IsFiniteSet(DOMAIN admitted[k])
  BY <1>2, FS_Interval
<1> QED BY <1>3, FS_Subset, FS_CardinalityType

\* Appending adds one position and leaves the others what they are.
LEMMA AppendAddsOne ==
  ASSUME NEW T, NEW s \in Seq(T), NEW x \in T
  PROVE  /\ DOMAIN s = 1..Len(s) /\ Len(s) \in Nat
         /\ DOMAIN Append(s, x) = DOMAIN s \cup {Len(s) + 1}
         /\ Len(s) + 1 \notin DOMAIN s
         /\ Append(s, x)[Len(s) + 1] = x
         /\ \A i \in DOMAIN s : Append(s, x)[i] = s[i]
         /\ Append(s, x) \in Seq(T)
<1>1. DOMAIN s = 1..Len(s) /\ Len(s) \in Nat
  OBVIOUS
<1>2. Append(s, x) \in Seq(T) /\ Len(Append(s, x)) = Len(s) + 1
  OBVIOUS
<1>3. DOMAIN Append(s, x) = 1..(Len(s) + 1)
  BY <1>2
<1>4. Append(s, x)[Len(s) + 1] = x /\ \A i \in 1..Len(s) : Append(s, x)[i] = s[i]
  BY <1>1
<1> QED BY <1>1, <1>2, <1>3, <1>4

LEMMA GateInitInv == GateInit => GateInv
<1> SUFFICES ASSUME GateInit PROVE GateInv
  OBVIOUS
<1>1. \A k \in KeyId : admitted[k] = <<>> /\ hits[k] = {}
  BY DEF GateInit, NothingAdmitted, NoHits
<1>2. \A k \in KeyId : DOMAIN admitted[k] = {}
  BY <1>1
<1>3. GateTypeOK
  BY <1>1, <1>2, GateAssumption DEF GateInit, GateTypeOK, NothingAdmitted, NoHits
<1>4. config.limit \in Nat
  BY <1>3, SettingsType DEF GateTypeOK
<1>5. WithinBudget
  <2> SUFFICES ASSUME NEW k \in KeyId, NEW from \in 0..MaxNow
               PROVE  Cardinality(Within(k, from)) <= config.limit
    BY DEF WithinBudget, Within
  <2>1. Within(k, from) = {}
    BY <1>2 DEF Within
  <2> QED BY <2>1, <1>4, FS_EmptySet
<1> QED BY <1>2, <1>3, <1>5 DEF GateInv, RemembersRecent, AdmittedByNow

\* What a request does to the limiter: nothing, only forgetting, or one more.
LEMMA DeliverLimiter ==
  ASSUME GateTypeOK, NEW q \in Request, Deliver(q),
         NEW k, k = ShapeOf[q].key
  PROVE  /\ k \in KeyId
         /\ UNCHANGED <<config, now, session>>
         /\ waiting' \subseteq Request /\ DOMAIN answer' = Request
         /\ \/ UNCHANGED <<hits, admitted>>
            \/ hits' = [hits EXCEPT ![k] = Recent(k)] /\ UNCHANGED admitted
            \/ /\ ~Limited(k)
               /\ hits' = [hits EXCEPT ![k] = Recent(k) \cup {Len(admitted[k]) + 1}]
               /\ admitted' = [admitted EXCEPT ![k] = Append(@, now)]
<1>1. k \in KeyId
  BY GateAssumption DEF Shape
<1>2. UNCHANGED <<config, now, session>>
  BY DEF Deliver
<1>3. waiting' \subseteq Request /\ DOMAIN answer' = Request
  BY DEF Deliver, Refuse, HandOn, GateTypeOK
<1> QED BY <1>1, <1>2, <1>3 DEF Deliver

\* Positions that may be remembered: of admissions, and no others.
LEMMA ForgettingKeepsInv ==
  ASSUME GateInv, NEW k \in KeyId,
         hits' = [hits EXCEPT ![k] = Recent(k)],
         UNCHANGED <<config, now, session, admitted>>,
         waiting' \subseteq Request, DOMAIN answer' = Request
  PROVE  GateInv'
<1>1. DOMAIN hits = KeyId
  BY DEF GateInv, GateTypeOK
<1>2. \A j \in KeyId : hits'[j] = IF j = k THEN Recent(k) ELSE hits[j]
  BY <1>1
<1>3. GateTypeOK'
  BY <1>1, <1>2 DEF GateInv, GateTypeOK, Recent
<1>4. RemembersRecent'
  BY <1>2 DEF GateInv, RemembersRecent, Recent
<1> QED BY <1>3, <1>4 DEF GateInv, AdmittedByNow, WithinBudget

LEMMA AdmittingKeepsInv ==
  ASSUME GateInv, NEW k \in KeyId, ~Limited(k),
         hits' = [hits EXCEPT ![k] = Recent(k) \cup {Len(admitted[k]) + 1}],
         admitted' = [admitted EXCEPT ![k] = Append(@, now)],
         UNCHANGED <<config, now, session>>,
         waiting' \subseteq Request, DOMAIN answer' = Request
  PROVE  GateInv'
<1> DEFINE last == Len(admitted[k]) + 1
<1>1. DOMAIN hits = KeyId /\ DOMAIN admitted = KeyId
  BY DEF GateInv, GateTypeOK
<1>2. /\ \A j \in KeyId \ {k} : hits'[j] = hits[j] /\ admitted'[j] = admitted[j]
      /\ hits'[k] = Recent(k) \cup {last}
      /\ admitted'[k] = Append(admitted[k], now)
  BY <1>1
<1>3. admitted[k] \in Seq(0..MaxNow) /\ now \in 0..MaxNow /\ Window \in Nat /\ MaxNow \in Nat
  BY GateAssumption DEF GateInv, GateTypeOK
<1>4. /\ DOMAIN admitted[k] = 1..Len(admitted[k]) /\ Len(admitted[k]) \in Nat
      /\ DOMAIN admitted'[k] = DOMAIN admitted[k] \cup {last}
      /\ last \notin DOMAIN admitted[k]
      /\ admitted'[k][last] = now
      /\ \A i \in DOMAIN admitted[k] : admitted'[k][i] = admitted[k][i]
      /\ admitted'[k] \in Seq(0..MaxNow)
  <2>1. admitted'[k] = Append(admitted[k], now) /\ admitted[k] \in Seq(0..MaxNow)
        /\ now \in 0..MaxNow
    BY <1>2, <1>3
  <2>2. /\ DOMAIN admitted[k] = 1..Len(admitted[k]) /\ Len(admitted[k]) \in Nat
        /\ DOMAIN Append(admitted[k], now) = DOMAIN admitted[k] \cup {last}
        /\ last \notin DOMAIN admitted[k]
        /\ Append(admitted[k], now)[last] = now
        /\ \A i \in DOMAIN admitted[k] : Append(admitted[k], now)[i] = admitted[k][i]
        /\ Append(admitted[k], now) \in Seq(0..MaxNow)
    BY <2>1, AppendAddsOne, Zenon
  <2> QED BY <2>1, <2>2
<1>5. GateTypeOK'
  <2>1. admitted' \in [KeyId -> Seq(0..MaxNow)]
    BY <1>2, <1>4 DEF GateInv, GateTypeOK
  <2>2. \A j \in KeyId : hits'[j] \subseteq DOMAIN admitted'[j]
    BY <1>2, <1>4 DEF GateInv, GateTypeOK, Recent
  <2>3. DOMAIN hits' = KeyId
    BY <1>1
  <2> QED BY <2>1, <2>2, <2>3 DEF GateInv, GateTypeOK
<1>6. RemembersRecent'
  BY <1>2, <1>4 DEF GateInv, RemembersRecent, Recent
<1>7. AdmittedByNow'
  <2>1. \A j \in KeyId \ {k} : \A i \in DOMAIN admitted'[j] : admitted'[j][i] <= now
    BY <1>2 DEF GateInv, AdmittedByNow
  <2>2. \A i \in DOMAIN admitted'[k] : admitted'[k][i] <= now
    BY <1>3, <1>4 DEF GateInv, AdmittedByNow
  <2> QED BY <2>1, <2>2 DEF AdmittedByNow
<1>8. WithinBudget'
  <2> SUFFICES ASSUME NEW j \in KeyId, NEW from \in 0..MaxNow
               PROVE  Cardinality(Within(j, from)') <= config.limit
    BY DEF WithinBudget, Within
  <2>1. Cardinality(Within(j, from)) <= config.limit
    BY DEF GateInv, WithinBudget, Within
  <2>2. CASE j # k
    <3>1. Within(j, from)' = Within(j, from)
      BY <2>2, <1>2 DEF Within
    <3> QED BY <3>1, <2>1
  <2>3. CASE j = k /\ ~(from <= now /\ now < from + Window)
    <3>1. Within(k, from)' = Within(k, from)
      BY <2>3, <1>4 DEF Within
    <3> QED BY <3>1, <2>1, <2>3
  <2>4. CASE j = k /\ from <= now /\ now < from + Window
    \* A window that holds the new admission holds of the others only recent ones.
    <3>1. Within(k, from)' = Within(k, from) \cup {last}
      BY <2>4, <1>4 DEF Within
    <3>2. \A i \in DOMAIN admitted[k] : admitted[k][i] \in Int
      BY <1>3
    <3>3. Within(k, from) \subseteq Recent(k)
      BY <2>4, <1>3, <3>2 DEF Within, Recent, GateInv, RemembersRecent
    <3>4. Recent(k) \subseteq DOMAIN admitted[k] /\ last \notin Within(k, from)
      BY <1>4 DEF Recent, Within, GateInv, GateTypeOK
    <3>5. IsFiniteSet(Recent(k)) /\ Cardinality(Recent(k)) \in Nat
      BY <3>4, PositionsFinite DEF GateInv
    <3>6. IsFiniteSet(Within(k, from)) /\ Cardinality(Within(k, from)) \in Nat
          /\ Cardinality(Within(k, from)) <= Cardinality(Recent(k))
      BY <3>3, <3>5, FS_Subset, FS_CardinalityType
    <3>7. Cardinality(Within(k, from)') = Cardinality(Within(k, from)) + 1
      BY <3>1, <3>4, <3>6, FS_AddElement
    <3>8. config.limit \in Nat
      BY SettingsType DEF GateInv, GateTypeOK
    <3>9. Cardinality(Recent(k)) < config.limit
      BY <3>5, <3>8 DEF Limited
    <3> QED BY <3>5, <3>6, <3>7, <3>8, <3>9, <2>4
  <2> QED BY <2>2, <2>3, <2>4
<1> QED BY <1>5, <1>6, <1>7, <1>8 DEF GateInv

LEMMA GateStepInv == GateInv /\ [GateNext]_gateVars => GateInv'
<1> SUFFICES ASSUME GateInv, [GateNext]_gateVars PROVE GateInv'
  OBVIOUS
<1>1. ASSUME NEW q \in Request, Deliver(q) PROVE GateInv'
  <2> DEFINE k == ShapeOf[q].key
  <2>1. /\ k \in KeyId
        /\ UNCHANGED <<config, now, session>>
        /\ waiting' \subseteq Request /\ DOMAIN answer' = Request
        /\ \/ UNCHANGED <<hits, admitted>>
           \/ hits' = [hits EXCEPT ![k] = Recent(k)] /\ UNCHANGED admitted
           \/ /\ ~Limited(k)
              /\ hits' = [hits EXCEPT ![k] = Recent(k) \cup {Len(admitted[k]) + 1}]
              /\ admitted' = [admitted EXCEPT ![k] = Append(@, now)]
    BY <1>1, DeliverLimiter DEF GateInv
  <2>2. CASE UNCHANGED <<hits, admitted>>
    BY <2>1, <2>2 DEF GateInv, GateTypeOK, RemembersRecent, AdmittedByNow, WithinBudget
  <2> QED BY <2>1, <2>2, ForgettingKeepsInv, AdmittingKeepsInv
<1>2. CASE SignIn
  <2>1. session' \in 0..(MaxNow + Lifetime)
    BY <1>2, GateAssumption DEF SignIn, GateInv, GateTypeOK
  <2>2. GateTypeOK'
    BY <1>2, <2>1 DEF SignIn, GateInv, GateTypeOK
  <2>3. WithinBudget'
    BY <1>2 DEF SignIn, GateInv, WithinBudget
  <2> QED BY <1>2, <2>2, <2>3 DEF SignIn, GateInv, RemembersRecent, AdmittedByNow
<1>3. CASE SignInFails
  BY <1>3 DEF SignInFails, GateInv, GateTypeOK, RemembersRecent, AdmittedByNow, WithinBudget
<1>4. CASE ClockTicks
  <2>1. now' = now + 1 /\ now' \in 0..MaxNow /\ now \in 0..MaxNow
        /\ UNCHANGED <<config, hits, session, waiting, answer, admitted>>
    BY <1>4, GateAssumption DEF ClockTicks, GateInv, GateTypeOK
  <2>2. \A k \in KeyId : \A i \in DOMAIN admitted[k] : admitted[k][i] \in Int
    <3>1. \A k \in KeyId : admitted[k] \in Seq(0..MaxNow)
      BY DEF GateInv, GateTypeOK
    <3> QED BY <3>1, GateAssumption
  <2>3. RemembersRecent' /\ AdmittedByNow'
    BY <2>1, <2>2, GateAssumption DEF GateInv, RemembersRecent, AdmittedByNow
  <2>4. GateTypeOK' /\ WithinBudget'
    BY <2>1 DEF GateInv, GateTypeOK, WithinBudget
  <2> QED BY <2>3, <2>4 DEF GateInv
<1>5. CASE Restart
  <2>1. \A k \in KeyId : DOMAIN admitted'[k] = {} /\ hits'[k] = {}
    BY <1>5 DEF Restart, NothingAdmitted, NoHits
  <2>2. GateTypeOK'
    <3>1. admitted' \in [KeyId -> Seq(0..MaxNow)]
      BY <1>5 DEF Restart, NothingAdmitted
    <3> QED BY <1>5, <2>1, <3>1, GateAssumption DEF Restart, GateInv, GateTypeOK, NoHits
  <2>3. config'.limit \in Nat
    BY <2>2, SettingsType DEF GateTypeOK
  <2>4. WithinBudget'
    <3> SUFFICES ASSUME NEW k \in KeyId, NEW from \in 0..MaxNow
                 PROVE  Cardinality(Within(k, from)') <= config'.limit
      BY DEF WithinBudget, Within
    <3>1. Within(k, from)' = {}
      BY <2>1 DEF Within
    <3> QED BY <3>1, <2>3, FS_EmptySet
  <2> QED BY <2>4, <2>1, <2>2, <2>3 DEF GateInv, RemembersRecent, AdmittedByNow
<1>6. CASE UNCHANGED gateVars
  BY <1>6 DEF gateVars, GateInv, GateTypeOK, RemembersRecent, AdmittedByNow, WithinBudget
<1> QED BY <1>1, <1>2, <1>3, <1>4, <1>5, <1>6 DEF GateNext

\* The configuration, the clock, the memory of the limiter and the session
\* are of their types: what is remembered are admissions of that key.
THEOREM GateTypeCorrect == GateSpec => []GateTypeOK
<1>1. GateInv => GateTypeOK
  BY DEF GateInv
<1> QED BY <1>1, GateInitInv, GateStepInv, PTL DEF GateSpec

\* However the requests of a key are spread over time, however many wait for
\* a sign-in and whatever the limiter has forgotten, no window of its length
\* holds more admissions than the limit.
THEOREM WithinBudgetHolds == GateSpec => []WithinBudget
<1>1. GateInv => WithinBudget
  BY DEF GateInv
<1> QED BY <1>1, GateInitInv, GateStepInv, PTL DEF GateSpec

-----------------------------------------------------------------------------
(* The matching of a bank transaction *)

AllocationRows == [Allocation -> AllocationRow]
Begun(rows) == {a \in Allocation : rows[a].status # "none"}

\* What an insert under way has found is right unless a reversal crossed it;
\* its row is not there yet, and will not count.
FoundIsRight ==
  \A a \in Allocation :
     /\ InsertUnderWay(a) => /\ allocations[a].status = "none"
                            /\ inserting[a].row.status = "suggested_match"
     /\ inserting[a].found = "exception" => excepted
     /\ InsertUnderWay(a) /\ ~inserting[a].crossed /\ ~IsReversal =>
          SaysWhatIsMatched(inserting[a].found)

\* Allocations are any set, those that were ever made are finitely many.
BankAllocationInv ==
  /\ BankAllocationTypeOK
  /\ MatchedWithinAmount
  /\ IsFiniteSet(Begun(allocations))
  /\ FoundIsRight

UnitsOfOthers(rows, a) == {u \in Units(rows) : u[1] # a}
UnitsOf(a, row) == {a} \X (1..row.amount)

LEMMA UnitsFinite ==
  ASSUME NEW rows \in AllocationRows, IsFiniteSet(Begun(rows))
  PROVE  IsFiniteSet(Units(rows)) /\ Allocated(rows) \in Nat
<1>1. Units(rows) \subseteq Begun(rows) \X (1..MaxAllocated)
  BY DEF Units, Counts, Begun
<1>2. IsFiniteSet(1..MaxAllocated)
  BY BankAllocationAssumption, FS_Interval
<1>3. IsFiniteSet(Begun(rows) \X (1..MaxAllocated))
  BY <1>2, FS_Product
<1> QED BY <1>1, <1>3, FS_Subset, FS_CardinalityType DEF Allocated

\* One row changed: the units of the others, and those of this row if it counts.
LEMMA UnitsOfOneChange ==
  ASSUME NEW rows \in AllocationRows, NEW next \in AllocationRows,
         NEW a \in Allocation, \A b \in Allocation \ {a} : next[b] = rows[b]
  PROVE  /\ ~Counts(next[a]) => Units(next) = UnitsOfOthers(rows, a)
         /\ Counts(next[a]) => Units(next) = UnitsOfOthers(rows, a) \cup UnitsOf(a, next[a])
<1>1. next[a].amount \in 0..MaxAllocated
  BY DEF AllocationRows, AllocationRow
<1>2. ASSUME NEW u \in Allocation \X (1..MaxAllocated), u[1] # a
      PROVE  u \in Units(next) <=> u \in UnitsOfOthers(rows, a)
  BY <1>2 DEF Units, UnitsOfOthers
<1>3. ASSUME NEW u \in Allocation \X (1..MaxAllocated), u[1] = a
      PROVE  /\ u \notin UnitsOfOthers(rows, a)
             /\ u \in Units(next) <=> Counts(next[a]) /\ u[2] <= next[a].amount
             /\ u \in UnitsOf(a, next[a]) <=> u[2] <= next[a].amount
  BY <1>3, <1>1 DEF Units, UnitsOfOthers, UnitsOf
<1>4. /\ Units(next) \subseteq Allocation \X (1..MaxAllocated)
      /\ UnitsOfOthers(rows, a) \subseteq Allocation \X (1..MaxAllocated)
  BY DEF Units, UnitsOfOthers
<1>5. UnitsOf(a, next[a]) \subseteq Allocation \X (1..MaxAllocated)
      /\ \A u \in UnitsOf(a, next[a]) : u[1] = a
  BY <1>1, BankAllocationAssumption DEF UnitsOf
<1> QED BY <1>2, <1>3, <1>4, <1>5

LEMMA UnitsOfCount ==
  ASSUME NEW a, NEW row, row.amount \in Nat
  PROVE  IsFiniteSet(UnitsOf(a, row)) /\ Cardinality(UnitsOf(a, row)) = row.amount
<1>1. IsFiniteSet(1..row.amount) /\ Cardinality(1..row.amount) = row.amount
  BY FS_Interval
<1>2. IsFiniteSet({a}) /\ Cardinality({a}) = 1
  BY FS_Singleton
<1> QED BY <1>1, <1>2, FS_Product DEF UnitsOf

\* Two rows that do not count are the same to the sum.
LEMMA SameUnits ==
  ASSUME NEW rows \in AllocationRows, NEW next \in AllocationRows, NEW a \in Allocation,
         \A b \in Allocation \ {a} : next[b] = rows[b],
         ~Counts(rows[a]), ~Counts(next[a])
  PROVE  Allocated(next) = Allocated(rows)
<1>1. Units(next) = Units(rows)
  BY DEF Units
<1> QED BY <1>1 DEF Allocated

SaysOf(status, rows) ==
  /\ status = "matched" <=> Allocated(rows) = TxAmount
  /\ status = "partially_matched" <=> Allocated(rows) \in 1..(TxAmount - 1)

\* What is found of allocations that add up to the transaction at most.
LEMMA ReconciledSays ==
  ASSUME NEW rows \in AllocationRows, IsFiniteSet(Begun(rows)),
         Allocated(rows) <= TxAmount, excepted \in BOOLEAN
  PROVE  /\ Reconciled(rows, excepted) \in ReconciledStatus
         /\ ~IsReversal => SaysOf(Reconciled(rows, excepted), rows)
         /\ Reconciled(rows, excepted) = "exception" => excepted
<1>1. Allocated(rows) \in Nat
  BY UnitsFinite
<1>2. Allocated(rows) = 0 \/ Allocated(rows) \in 1..TxAmount
  BY <1>1, BankAllocationAssumption
<1>3. CASE IsReversal
  BY <1>3 DEF Reconciled, ReconciledStatus
<1>4. CASE ~IsReversal /\ Allocated(rows) = 0
  <2>1. Reconciled(rows, excepted) = IF excepted THEN "exception" ELSE "unmatched"
    BY <1>4 DEF Reconciled, Derived
  <2>2. CASE excepted
    BY <2>1, <2>2, <1>4, BankAllocationAssumption DEF ReconciledStatus, SaysOf
  <2>3. CASE ~excepted
    BY <2>1, <2>3, <1>4, BankAllocationAssumption DEF ReconciledStatus, SaysOf
  <2> QED BY <2>2, <2>3
<1>5. CASE ~IsReversal /\ Allocated(rows) \in 1..TxAmount
  <2>1. Reconciled(rows, excepted) =
          IF Allocated(rows) = TxAmount THEN "matched" ELSE "partially_matched"
    BY <1>5 DEF Reconciled, Derived
  <2> QED BY <2>1, <1>5, BankAllocationAssumption DEF ReconciledStatus, SaysOf
<1> QED BY <1>2, <1>3, <1>4, <1>5

InsertsTyped ==
  inserting \in [Allocation -> [row : AllocationRow, found : ReconciledStatus,
                                crossed : BOOLEAN]]

\* What a change of the allocations leaves to be shown.
LEMMA AllocationsChange ==
  ASSUME BankAllocationInv, NEW rows \in AllocationRows, IsFiniteSet(Begun(rows)),
         allocations' = rows, Allocated(rows) <= TxAmount,
         UNCHANGED excepted, confirming' \subseteq Allocation,
         outdated' \in BOOLEAN, reconciled' \in ReconciledStatus,
         reconciled' = "exception" => excepted,
         ~outdated' /\ ~IsReversal => SaysOf(reconciled', rows),
         InsertsTyped', FoundIsRight'
  PROVE  BankAllocationInv'
<1>1. Allocated(allocations)' = Allocated(rows) /\ Begun(allocations)' = Begun(rows)
  BY DEF Allocated, Units, Counts, Begun
<1>2. BankAllocationTypeOK'
  BY DEF BankAllocationInv, BankAllocationTypeOK, AllocationRows, InsertsTyped
<1>3. SaysOf(reconciled', rows) => SaysWhatIsMatched(reconciled)'
  BY <1>1 DEF SaysOf, SaysWhatIsMatched
<1>4. MatchedWithinAmount'
  BY <1>1, <1>3 DEF MatchedWithinAmount
<1> QED BY <1>1, <1>2, <1>4 DEF BankAllocationInv

LEMMA StatusFollows ==
  ASSUME BankAllocationInv, NEW rows \in AllocationRows, IsFiniteSet(Begun(rows)),
         SetAllocations(rows), UNCHANGED excepted, Allocated(rows) <= TxAmount,
         confirming' \subseteq Allocation, InsertsTyped', FoundIsRight'
  PROVE  BankAllocationInv'
<1>1. excepted \in BOOLEAN
  BY DEF BankAllocationInv, BankAllocationTypeOK
<1>2. allocations' = rows /\ reconciled' = Reconciled(rows, excepted) /\ outdated' = FALSE
  BY DEF SetAllocations
<1> QED BY <1>1, <1>2, ReconciledSays, AllocationsChange

\* A row that does not count after a change leaves no more than was matched;
\* the one that does adds its amount to that of the others.
LEMMA AllocatedAfterChange ==
  ASSUME BankAllocationInv, NEW next \in AllocationRows, NEW a \in Allocation,
         \A b \in Allocation \ {a} : next[b] = allocations[b]
  PROVE  /\ IsFiniteSet(Begun(next))
         /\ ~Counts(next[a]) => Allocated(next) <= TxAmount
         /\ Allocated(next) <= Others(a) + next[a].amount
<1>1. allocations \in AllocationRows /\ IsFiniteSet(Begun(allocations))
  BY DEF BankAllocationInv, BankAllocationTypeOK, AllocationRows
<1>2. IsFiniteSet(Begun(next))
  <2>1. Begun(next) \subseteq Begun(allocations) \cup {a}
    BY DEF Begun
  <2> QED BY <2>1, <1>1, FS_AddElement, FS_Subset
<1> DEFINE rest == UnitsOfOthers(allocations, a)
<1>3. /\ IsFiniteSet(rest) /\ Cardinality(rest) \in Nat /\ Cardinality(rest) <= TxAmount
      /\ Cardinality(rest) = Others(a)
  <2>1. IsFiniteSet(Units(allocations)) /\ Allocated(allocations) \in Nat
    BY <1>1, UnitsFinite
  <2>2. rest \subseteq Units(allocations)
    BY DEF UnitsOfOthers
  <2>3. IsFiniteSet(rest) /\ Cardinality(rest) <= Allocated(allocations)
    BY <2>1, <2>2, FS_Subset DEF Allocated
  <2>4. Cardinality(rest) \in Nat
    BY <2>3, FS_CardinalityType
  <2>5. Allocated(allocations) <= TxAmount
    BY DEF BankAllocationInv, MatchedWithinAmount
  <2>6. Cardinality(rest) = Others(a)
    BY DEF Others, UnitsOfOthers
  <2> QED BY <2>1, <2>3, <2>4, <2>5, <2>6, BankAllocationAssumption
<1>4. next[a].amount \in Nat
  BY BankAllocationAssumption DEF AllocationRows, AllocationRow
<1>5. CASE ~Counts(next[a])
  <2>1. Units(next) = rest
    BY <1>1, <1>5, UnitsOfOneChange
  <2> QED BY <2>1, <1>2, <1>3, <1>4, <1>5 DEF Allocated
<1>6. CASE Counts(next[a])
  <2>1. Units(next) = rest \cup UnitsOf(a, next[a])
    BY <1>1, <1>6, UnitsOfOneChange
  <2>2. IsFiniteSet(UnitsOf(a, next[a])) /\ Cardinality(UnitsOf(a, next[a])) = next[a].amount
    BY <1>4, UnitsOfCount
  <2>3. rest \cap UnitsOf(a, next[a]) = {}
    BY DEF UnitsOfOthers, UnitsOf
  <2>4. Cardinality(rest \cup UnitsOf(a, next[a]))
          = Cardinality(rest) + Cardinality(UnitsOf(a, next[a])) - Cardinality({})
    BY <1>3, <2>2, <2>3, FS_Union
  <2> QED BY <2>1, <2>2, <2>4, <1>2, <1>3, <1>4, <1>6, FS_EmptySet DEF Allocated
<1> QED BY <1>5, <1>6

LEMMA BankAllocationInitInv == BankAllocationInit => BankAllocationInv
<1> SUFFICES ASSUME BankAllocationInit PROVE BankAllocationInv
  OBVIOUS
<1>1. NoAllocation \in AllocationRow
  BY BankAllocationAssumption DEF NoAllocation, AllocationRow, LinkedType
<1>2. BankAllocationTypeOK
  BY <1>1 DEF BankAllocationInit, BankAllocationTypeOK, NoInsert, ReconciledStatus
<1>3. Units(allocations) = {} /\ Begun(allocations) = {}
  BY DEF BankAllocationInit, Units, Counts, Begun, NoAllocation
<1>4. Allocated(allocations) = 0 /\ IsFiniteSet(Begun(allocations))
  BY <1>3, FS_EmptySet DEF Allocated
<1> QED BY <1>2, <1>4, BankAllocationAssumption
        DEF BankAllocationInv, MatchedWithinAmount, BankAllocationInit, FoundIsRight,
            SaysWhatIsMatched, InsertUnderWay, NoInsert, NoAllocation

LEMMA BankAllocationStepInv ==
  BankAllocationInv /\ [BankAllocationNext]_allocationVars => BankAllocationInv'
<1> SUFFICES ASSUME BankAllocationInv, [BankAllocationNext]_allocationVars
             PROVE  BankAllocationInv'
  OBVIOUS
<1>1. allocations \in [Allocation -> AllocationRow] /\ confirming \subseteq Allocation
      /\ InsertsTyped /\ reconciled \in ReconciledStatus /\ FoundIsRight
  BY DEF BankAllocationInv, BankAllocationTypeOK, InsertsTyped
<1>3. excepted \in BOOLEAN /\ outdated \in BOOLEAN
  BY DEF BankAllocationInv, BankAllocationTypeOK
<1>a. ASSUME UNCHANGED allocations
      PROVE  /\ Allocated(allocations)' = Allocated(allocations)
             /\ Begun(allocations)' = Begun(allocations)
  BY <1>a DEF Allocated, Units, Counts, Begun
\* The allocations and the status stay.
<1>2. ASSUME UNCHANGED <<allocations, reconciled, outdated>>,
             excepted' = TRUE \/ UNCHANGED excepted, confirming' \subseteq Allocation,
             InsertsTyped', FoundIsRight'
      PROVE  BankAllocationInv'
  <2>1. Allocated(allocations)' = Allocated(allocations)
        /\ Begun(allocations)' = Begun(allocations)
    BY <1>2, <1>a
  <2>2. excepted' \in BOOLEAN /\ (excepted => excepted')
    BY <1>2, <1>3, Zenon
  <2>3. BankAllocationTypeOK'
    <3>1. allocations' \in [Allocation -> AllocationRow] /\ reconciled' \in ReconciledStatus
      BY <1>1, <1>2
    <3>2. outdated' \in BOOLEAN
      BY <1>2, <1>3, Zenon
    <3> QED BY <1>2, <2>2, <3>1, <3>2, Zenon DEF BankAllocationTypeOK, InsertsTyped
  <2>4. SaysWhatIsMatched(reconciled)' <=> SaysWhatIsMatched(reconciled)
    BY <2>1, <1>2 DEF SaysWhatIsMatched
  <2>5. Allocated(allocations)' <= TxAmount
    BY <2>1 DEF BankAllocationInv, MatchedWithinAmount
  <2>6. MatchedWithinAmount'
    BY <2>2, <2>4, <2>5, <1>2, Zenon DEF BankAllocationInv, MatchedWithinAmount
  <2>7. IsFiniteSet(Begun(allocations))'
    BY <2>1 DEF BankAllocationInv
  <2> QED BY <1>2, <2>3, <2>6, <2>7 DEF BankAllocationInv
\* So do the inserts under way.
<1>b. ASSUME UNCHANGED <<allocations, inserting>>, excepted' = TRUE \/ UNCHANGED excepted
      PROVE  InsertsTyped' /\ FoundIsRight'
  <2>1. excepted => excepted'
    BY <1>b, <1>3, Zenon
  <2>2. \A st : SaysWhatIsMatched(st)' <=> SaysWhatIsMatched(st)
    BY <1>a, <1>b DEF SaysWhatIsMatched
  <2>3. InsertsTyped'
    BY <1>1, <1>b DEF InsertsTyped
  <2>4. \A a \in Allocation : InsertUnderWay(a)' <=> InsertUnderWay(a)
    BY <1>b DEF InsertUnderWay
  <2>5. \A a \in Allocation :
          SaysWhatIsMatched(inserting[a].found)' <=> SaysWhatIsMatched(inserting[a].found)
    BY <1>a, <1>b DEF SaysWhatIsMatched
  <2> QED BY <1>1, <1>b, <2>1, <2>3, <2>4, <2>5, Zenon DEF FoundIsRight
<1>4. CASE InsertException
  BY <1>1, <1>2, <1>4, <1>b DEF InsertException
<1>5. ASSUME NEW a \in Allocation, NEW type \in LinkedType, NEW amount \in 1..MaxAllocated,
             BeginInsert(a, type, amount)
      PROVE  BankAllocationInv'
  <2> DEFINE row == [status |-> "suggested_match", linked |-> type, amount |-> amount,
                     reversedAt |-> FALSE]
             found == Reconciled(allocations, excepted)
             new == [row |-> row, found |-> found, crossed |-> FALSE]
  <2>1. row \in AllocationRow
    BY BankAllocationAssumption DEF AllocationRow
  <2>2. /\ found \in ReconciledStatus
        /\ ~IsReversal => SaysOf(found, allocations)
        /\ found = "exception" => excepted
    BY <1>1, <1>3, ReconciledSays DEF BankAllocationInv, MatchedWithinAmount, AllocationRows
  <2>3. inserting' = [inserting EXCEPT ![a] = new] /\ allocations[a].status = "none"
        /\ UNCHANGED <<allocations, excepted, reconciled, confirming, outdated>>
    BY <1>5 DEF BeginInsert
  <2> HIDE DEF found
  <2>4. new \in [row : AllocationRow, found : ReconciledStatus, crossed : BOOLEAN]
    BY <2>1, <2>2
  <2>5. InsertsTyped'
    BY <1>1, <2>3, <2>4 DEF InsertsTyped
  <2>6. \A b \in Allocation : inserting'[b] = IF b = a THEN new ELSE inserting[b]
    BY <1>1, <2>3 DEF InsertsTyped
  <2>7. \A st : SaysOf(st, allocations) <=> SaysWhatIsMatched(st)
    BY DEF SaysOf, SaysWhatIsMatched
  <2>8. FoundIsRight'
    <3>1. ASSUME NEW b \in Allocation
          PROVE  /\ InsertUnderWay(b)' => /\ allocations'[b].status = "none"
                                          /\ inserting'[b].row.status = "suggested_match"
                 /\ inserting'[b].found = "exception" => excepted'
                 /\ InsertUnderWay(b)' /\ ~inserting'[b].crossed /\ ~IsReversal =>
                      SaysOf(inserting'[b].found, allocations)
      <4>1. CASE b = a
        <5>1. inserting'[b] = new
          BY <2>6, <4>1
        <5>2. /\ inserting'[b].row.status = "suggested_match"
              /\ inserting'[b].found = found
          BY <5>1
        <5> QED BY <5>2, <2>2, <2>3, <4>1, Zenon
      <4>2. CASE b # a
        <5>1. inserting'[b] = inserting[b] /\ (InsertUnderWay(b)' <=> InsertUnderWay(b))
          BY <2>6, <4>2 DEF InsertUnderWay
        <5> QED BY <1>1, <2>3, <2>7, <5>1, Zenon DEF FoundIsRight
      <4> QED BY <4>1, <4>2
    <3>2. \A b \in Allocation :
            SaysOf(inserting'[b].found, allocations) => SaysWhatIsMatched(inserting[b].found)'
      BY <1>a, <2>3 DEF SaysOf, SaysWhatIsMatched
    <3> QED BY <3>1, <3>2, Zenon DEF FoundIsRight
  <2> QED BY <1>1, <1>2, <2>3, <2>5, <2>8
<1>10. ASSUME NEW a \in Allocation, inserting' = [inserting EXCEPT ![a] = NoInsert]
       PROVE  /\ InsertsTyped'
              /\ ~InsertUnderWay(a)' /\ inserting'[a].found = "unmatched"
              /\ \A b \in Allocation :
                   /\ inserting'[b] = IF b = a THEN NoInsert ELSE inserting[b]
                   /\ InsertUnderWay(b)' <=> b # a /\ InsertUnderWay(b)
  <2>1. NoInsert \in [row : AllocationRow, found : ReconciledStatus, crossed : BOOLEAN]
    BY BankAllocationAssumption
       DEF NoInsert, NoAllocation, AllocationRow, LinkedType, ReconciledStatus
  <2>2. InsertsTyped' /\ \A b \in Allocation :
          inserting'[b] = IF b = a THEN NoInsert ELSE inserting[b]
    BY <1>1, <1>10, <2>1 DEF InsertsTyped
  <2>3. NoInsert.row.status = "none" /\ NoInsert.found = "unmatched"
    BY DEF NoInsert, NoAllocation
  <2> QED BY <2>2, <2>3 DEF InsertUnderWay
<1>11. ASSUME NEW a \in Allocation, FinishInsert(a) PROVE BankAllocationInv'
  <2> DEFINE row == inserting[a].row
             next == [allocations EXCEPT ![a] = row]
  <2>1. /\ row \in AllocationRow /\ inserting[a].found \in ReconciledStatus
        /\ inserting[a].crossed \in BOOLEAN
    BY <1>1 DEF InsertsTyped
  <2>2. /\ row.status = "suggested_match" /\ allocations[a].status = "none"
        /\ inserting[a].found = "exception" => excepted
        /\ ~inserting[a].crossed /\ ~IsReversal => SaysWhatIsMatched(inserting[a].found)
    BY <1>1, <1>11 DEF FinishInsert, FoundIsRight
  <2>3. ~Counts(row) /\ ~Counts(allocations[a])
    BY <2>2 DEF Counts
  <2>4. next \in AllocationRows /\ next[a] = row
        /\ \A b \in Allocation \ {a} : next[b] = allocations[b]
    BY <1>1, <2>1 DEF AllocationRows
  <2>5. IsFiniteSet(Begun(next)) /\ Allocated(next) <= TxAmount
    BY <2>3, <2>4, AllocatedAfterChange
  <2>6. Allocated(next) = Allocated(allocations)
    BY <1>1, <2>3, <2>4, SameUnits DEF AllocationRows
  <2>7. /\ allocations' = next /\ reconciled' = inserting[a].found
        /\ outdated' = inserting[a].crossed /\ UNCHANGED excepted
        /\ inserting' = [inserting EXCEPT ![a] = NoInsert]
        /\ confirming' \subseteq Allocation
    BY <1>1, <1>11 DEF FinishInsert
  <2> HIDE DEF next
  <2>8. ~outdated' /\ ~IsReversal => SaysOf(reconciled', next)
    <3>1. SaysWhatIsMatched(inserting[a].found) => SaysOf(inserting[a].found, next)
      BY <2>6 DEF SaysWhatIsMatched, SaysOf
    <3> QED BY <2>2, <2>7, <3>1, Zenon
  <2>9. FoundIsRight'
    <3>1. ASSUME NEW b \in Allocation, b # a
          PROVE  /\ InsertUnderWay(b)' => /\ allocations'[b].status = "none"
                                          /\ inserting'[b].row.status = "suggested_match"
                 /\ inserting'[b].found = "exception" => excepted'
                 /\ InsertUnderWay(b)' /\ ~inserting'[b].crossed /\ ~IsReversal =>
                      SaysWhatIsMatched(inserting[b].found)
      <4>1. inserting'[b] = inserting[b] /\ (InsertUnderWay(b)' <=> InsertUnderWay(b))
            /\ allocations'[b] = allocations[b]
        BY <1>10, <2>4, <2>7, <3>1
      <4> QED BY <1>1, <2>7, <4>1, Zenon DEF FoundIsRight
    <3>2. ~InsertUnderWay(a)' /\ inserting'[a].found = "unmatched"
      BY <1>10, <2>7
    <3>3. \A b \in Allocation \ {a} :
            SaysWhatIsMatched(inserting[b].found) => SaysWhatIsMatched(inserting[b].found)'
      <4>1. Allocated(allocations)' = Allocated(next)
        BY <2>7 DEF Allocated, Units, Counts
      <4>2. \A b \in Allocation \ {a} : inserting'[b] = inserting[b]
        BY <1>10, <2>7
      <4> QED BY <2>6, <4>1, <4>2 DEF SaysWhatIsMatched
    <3>4. \A b \in Allocation : b = a \/ b \in Allocation \ {a}
      OBVIOUS
    <3>5. "unmatched" # "exception"
      OBVIOUS
    <3> QED BY <3>1, <3>2, <3>3, <3>4, <3>5, Zenon DEF FoundIsRight
  <2>10. InsertsTyped'
    BY <1>10, <2>7
  <2>11. reconciled' \in ReconciledStatus /\ (reconciled' = "exception" => excepted)
    BY <2>1, <2>2, <2>7, Zenon
  <2>12. outdated' \in BOOLEAN
    BY <2>1, <2>7, Zenon
  <2> QED BY <2>4, <2>5, <2>7, <2>8, <2>9, <2>10, <2>11, <2>12, AllocationsChange
<1>12. ASSUME NEW a \in Allocation, InsertDies(a) PROVE BankAllocationInv'
  <2>1. inserting' = [inserting EXCEPT ![a] = NoInsert]
        /\ UNCHANGED <<allocations, excepted, reconciled, confirming, outdated>>
    BY <1>12 DEF InsertDies
  <2>2. FoundIsRight'
    <3>1. \A b \in Allocation \ {a} :
            /\ inserting'[b] = inserting[b] /\ (InsertUnderWay(b)' <=> InsertUnderWay(b))
            /\ SaysWhatIsMatched(inserting[b].found) <=> SaysWhatIsMatched(inserting[b].found)'
      BY <1>10, <1>a, <2>1 DEF SaysWhatIsMatched
    <3>2. ~InsertUnderWay(a)' /\ inserting'[a].found = "unmatched"
      BY <1>10, <2>1
    <3>3. \A b \in Allocation : b = a \/ b \in Allocation \ {a}
      OBVIOUS
    <3>4. "unmatched" # "exception"
      OBVIOUS
    <3> QED BY <1>1, <2>1, <3>1, <3>2, <3>3, <3>4, Zenon DEF FoundIsRight
  <2> QED BY <1>1, <1>2, <1>10, <2>1, <2>2
<1>6. ASSUME NEW a \in Allocation, NEW override \in BOOLEAN, ConfirmAllocation(a, override)
      PROVE  BankAllocationInv'
  <2> DEFINE next == [allocations EXCEPT ![a].status = "confirmed"]
  <2>1. UNCHANGED <<excepted, inserting>> /\ confirming' \subseteq Allocation
        /\ \A b \in Allocation : ~InsertUnderWay(b)
    BY <1>1, <1>6 DEF ConfirmAllocation
  <2>2. CASE MayConfirm(a, override)
    <3>1. next[a] = [allocations[a] EXCEPT !.status = "confirmed"]
          /\ allocations[a] \in AllocationRow
      BY <1>1
    <3>2. next[a] \in AllocationRow /\ next[a].amount = allocations[a].amount
      BY <3>1 DEF AllocationRow
    <3>3. next \in AllocationRows /\ \A b \in Allocation \ {a} : next[b] = allocations[b]
      BY <1>1, <3>2 DEF AllocationRows
    <3>4. IsFiniteSet(Begun(next)) /\ Allocated(next) <= Others(a) + next[a].amount
      BY <3>3, AllocatedAfterChange
    <3>5. Others(a) + next[a].amount <= TxAmount
      BY <2>2, <3>2 DEF MayConfirm
    <3>6. Others(a) + next[a].amount \in Int /\ Allocated(next) \in Nat
      <4>1. Allocated(next) \in Nat
        BY <3>3, <3>4, UnitsFinite
      <4>2. next[a].amount \in Nat
        BY <3>2, BankAllocationAssumption DEF AllocationRow
      <4>3. Others(a) \in Nat
        <5>1. IsFiniteSet(Units(allocations))
          BY <1>1, UnitsFinite DEF BankAllocationInv, AllocationRows
        <5> QED BY <5>1, FS_Subset, FS_CardinalityType DEF Others
      <4> QED BY <4>1, <4>2, <4>3
    <3>7. Allocated(next) <= TxAmount
      BY <3>4, <3>5, <3>6, BankAllocationAssumption
    <3>8. SetAllocations(next)
      BY <1>6, <2>2 DEF ConfirmAllocation
    <3>9. InsertsTyped' /\ \A b \in Allocation :
            ~InsertUnderWay(b)' /\ inserting'[b] = inserting[b]
      BY <1>1, <2>1 DEF InsertsTyped, InsertUnderWay
    <3>10. FoundIsRight'
      BY <1>1, <2>1, <3>9, Zenon DEF FoundIsRight
    <3> QED BY <2>1, <3>3, <3>4, <3>7, <3>8, <3>9, <3>10, StatusFollows
  <2>3. CASE ~MayConfirm(a, override)
    <3>1. UNCHANGED <<allocations, reconciled, outdated>>
      BY <1>6, <2>3 DEF ConfirmAllocation
    <3> QED BY <3>1, <2>1, <1>2, <1>b
  <2> QED BY <2>2, <2>3
<1>7. ASSUME NEW a \in Allocation, ConfirmingDies(a) PROVE BankAllocationInv'
  BY <1>1, <1>2, <1>b, <1>7 DEF ConfirmingDies
<1>8. ASSUME NEW a \in Allocation, ReverseAllocation(a) PROVE BankAllocationInv'
  <2> DEFINE next == [allocations EXCEPT ![a].status = "reversed", ![a].reversedAt = TRUE]
             after(b) == [inserting[b] EXCEPT !.crossed =
                            @ \/ (InsertUnderWay(b) /\ Counts(allocations[a]))]
  <2>1. next[a] = [allocations[a] EXCEPT !.status = "reversed", !.reversedAt = TRUE]
        /\ allocations[a] \in AllocationRow /\ allocations[a].status # "none"
    BY <1>1, <1>8 DEF ReverseAllocation
  <2>2. next[a] \in AllocationRow /\ ~Counts(next[a])
    BY <2>1, ZenonT(30) DEF AllocationRow, Counts
  <2>3. next \in AllocationRows /\ \A b \in Allocation \ {a} : next[b] = allocations[b]
    BY <1>1, <2>2 DEF AllocationRows
  <2>4. IsFiniteSet(Begun(next)) /\ Allocated(next) <= TxAmount
    BY <2>2, <2>3, AllocatedAfterChange
  <2>5. SetAllocations(next) /\ UNCHANGED excepted /\ confirming' \subseteq Allocation
        /\ inserting' = [b \in Allocation |-> after(b)]
    BY <1>1, <1>8 DEF ReverseAllocation
  <2>6. \A b \in Allocation :
          /\ after(b) \in [row : AllocationRow, found : ReconciledStatus, crossed : BOOLEAN]
          /\ after(b).row = inserting[b].row /\ after(b).found = inserting[b].found
          /\ after(b).crossed <=>
               inserting[b].crossed \/ (InsertUnderWay(b) /\ Counts(allocations[a]))
    <3>1. ASSUME NEW b \in Allocation,
                 NEW c, c = (inserting[b].crossed \/ (InsertUnderWay(b) /\ Counts(allocations[a])))
          PROVE  c \in BOOLEAN
      BY <3>1
    <3>2. ASSUME NEW b \in Allocation, NEW c \in BOOLEAN
          PROVE  /\ [inserting[b] EXCEPT !.crossed = c]
                      \in [row : AllocationRow, found : ReconciledStatus, crossed : BOOLEAN]
                 /\ [inserting[b] EXCEPT !.crossed = c].row = inserting[b].row
                 /\ [inserting[b] EXCEPT !.crossed = c].found = inserting[b].found
                 /\ [inserting[b] EXCEPT !.crossed = c].crossed = c
      BY <1>1 DEF InsertsTyped
    <3> QED BY <3>1, <3>2, Zenon
  <2> HIDE DEF after
  <2>7. InsertsTyped'
    BY <2>5, <2>6 DEF InsertsTyped
  <2>8. \A b \in Allocation : inserting'[b] = after(b)
    BY <2>5
  <2>9. \A b \in Allocation :
          /\ InsertUnderWay(b)' <=> InsertUnderWay(b)
          /\ inserting'[b].found = inserting[b].found
          /\ inserting'[b].row = inserting[b].row
    BY <2>6, <2>8 DEF InsertUnderWay
  <2> HIDE DEF next
  <2>10. allocations' = next /\ Allocated(allocations)' = Allocated(next)
    BY <2>5 DEF SetAllocations, Allocated, Units, Counts
  <2>11. ~Counts(allocations[a]) => Allocated(next) = Allocated(allocations)
    BY <1>1, <2>2, <2>3, SameUnits DEF AllocationRows
  <2>12. \A b \in Allocation : InsertUnderWay(b)' => allocations'[b].status = "none"
    <3>1. \A b \in Allocation : InsertUnderWay(b) => b # a /\ allocations[b].status = "none"
      BY <1>1, <2>1 DEF FoundIsRight
    <3> QED BY <2>3, <2>9, <2>10, <3>1
  <2>13. ASSUME NEW b \in Allocation, InsertUnderWay(b)', ~inserting'[b].crossed, ~IsReversal
         PROVE  SaysWhatIsMatched(inserting[b].found)'
    <3>1. InsertUnderWay(b) /\ ~inserting[b].crossed /\ ~Counts(allocations[a])
      BY <2>6, <2>8, <2>9, <2>13, Zenon
    <3>2. SaysWhatIsMatched(inserting[b].found)
      BY <1>1, <2>13, <3>1, Zenon DEF FoundIsRight
    <3> QED BY <2>9, <2>10, <2>11, <3>1, <3>2 DEF SaysWhatIsMatched
  <2>14. FoundIsRight'
    BY <1>1, <2>5, <2>9, <2>12, <2>13, Zenon DEF FoundIsRight
  <2> QED BY <2>3, <2>4, <2>5, <2>7, <2>14, StatusFollows
<1>9. CASE UNCHANGED allocationVars
  BY <1>1, <1>2, <1>b, <1>9 DEF allocationVars
<1> QED BY <1>4, <1>5, <1>6, <1>7, <1>8, <1>9, <1>11, <1>12 DEF BankAllocationNext

\* The allocations, the open exception and the status of the transaction are
\* of their types, and whoever confirms confirms an allocation.
THEOREM BankAllocationTypeCorrect == BankAllocationSpec => []BankAllocationTypeOK
<1>1. BankAllocationInv => BankAllocationTypeOK
  BY DEF BankAllocationInv
<1> QED BY <1>1, BankAllocationInitInv, BankAllocationStepInv, PTL DEF BankAllocationSpec

\* For any number of allocations and people, any amounts and any order of
\* inserts, confirmations, refusals, reversals and requests that end: no more is
\* matched than the transaction has, and its status says how much, unless an
\* insert overlapped with a reversal has written it last.
THEOREM MatchedWithinAmountHolds == BankAllocationSpec => []MatchedWithinAmount
<1>1. BankAllocationInv => MatchedWithinAmount
  BY DEF BankAllocationInv
<1> QED BY <1>1, BankAllocationInitInv, BankAllocationStepInv, PTL DEF BankAllocationSpec

-----------------------------------------------------------------------------
(* The lines of a statement *)

\* What a request in progress is.
ImportsShaped ==
  /\ DOMAIN imports = StatementRequest
  /\ \A q \in StatementRequest : imports[q] # NoImport =>
       /\ DOMAIN imports[q] = {"step", "file", "left", "exists", "next"}
       /\ imports[q].step \in {"find", "batch", "number", "chunk"}
       /\ imports[q].file \in StatementFile
       /\ imports[q].left \subseteq New(imports[q].file)

\* Rows are inserted into a batch there is.
BatchBeforeRows ==
  \A q \in StatementRequest :
    imports[q].step \in {"number", "chunk"} => imports[q].file \in statements

\* A line that need not be inserted, or was, is in the account.
RestIsStored ==
  /\ \A f \in answered : \A i \in New(f) : Fingerprint(f, i) \in StoredPrints
  /\ \A q \in StatementRequest : imports[q] # NoImport =>
       \A i \in New(imports[q].file) \ imports[q].left :
          Fingerprint(imports[q].file, i) \in StoredPrints

\* As long as one import runs at a time and nobody asks for duplicates, the
\* lines left to insert are not in the account yet.
LeftIsNotStored ==
  ~overlapped =>
    /\ \A p, q \in StatementRequest :
         imports[p] # NoImport /\ imports[q] # NoImport => p = q
    /\ ~doubled => \A q \in StatementRequest : imports[q] # NoImport =>
         \A i \in imports[q].left : Fingerprint(imports[q].file, i) \notin StoredPrints

StoredOnce == ~overlapped /\ ~doubled => \A x, y \in stored : x.print = y.print => x = y

StatementInv ==
  /\ StatementTypeOK
  /\ ImportsShaped
  /\ BatchBeforeRows
  /\ IsFiniteSet(stored)
  /\ RestIsStored
  /\ LeftIsNotStored
  /\ StoredOnce

LEMMA NewFinite ==
  ASSUME NEW f \in StatementFile
  PROVE  /\ New(f) \subseteq Nat /\ IsFiniteSet(New(f))
         /\ \A P \in SUBSET New(f) : IsFiniteSet(P) /\ Cardinality(P) \in Nat
<1>1. RowsOf[f] \in Seq(StatementRow)
  BY StatementAssumption
<1>2. DOMAIN RowsOf[f] = 1..Len(RowsOf[f]) /\ Len(RowsOf[f]) \in Nat
  BY <1>1
<1>3. New(f) \subseteq 1..Len(RowsOf[f])
  BY <1>2 DEF New
<1>4. IsFiniteSet(1..Len(RowsOf[f]))
  <2>1. \A n \in Nat : IsFiniteSet(1..n)
    BY FS_Interval
  <2> QED BY <2>1, <1>2
<1>5. IsFiniteSet(New(f))
  BY <1>3, <1>4, FS_Subset
<1> QED BY <1>2, <1>3, <1>5, FS_Subset, FS_CardinalityType

\* Two lines of a file never have one fingerprint: of two lines with the same
\* content the later one comes after one more.
LEMMA FingerprintsDiffer ==
  ASSUME NEW f \in StatementFile, NEW i \in New(f), NEW j \in New(f),
         Fingerprint(f, i) = Fingerprint(f, j)
  PROVE  i = j
<1>1. RowsOf[f][i] = RowsOf[f][j] /\ Occurrence(f, i) = Occurrence(f, j)
  BY DEF Fingerprint
<1> DEFINE Same(k) == {l \in New(f) : l <= k /\ RowsOf[f][l] = RowsOf[f][k]}
<1>2. i \in Nat /\ j \in Nat /\ New(f) \subseteq Nat
  BY NewFinite
<1>3. IsFiniteSet(Same(i)) /\ IsFiniteSet(Same(j)) /\ i \in Same(i) /\ j \in Same(j)
  BY <1>2, NewFinite
<1>4. Cardinality(Same(i)) = Cardinality(Same(j))
  BY <1>1 DEF Occurrence
<1>5. CASE i < j
  <2>1. Same(i) \subseteq Same(j) /\ j \notin Same(i)
    BY <1>1, <1>2, <1>5
  <2> HIDE DEF Same
  <2>2. Same(i) = Same(j)
    BY <2>1, <1>3, <1>4, FS_Subset
  <2> QED BY <2>1, <2>2, <1>3
<1>6. CASE j < i
  <2>1. Same(j) \subseteq Same(i) /\ i \notin Same(j)
    BY <1>1, <1>2, <1>6
  <2> HIDE DEF Same
  <2>2. Same(j) = Same(i)
    BY <2>1, <1>3, <1>4, FS_Subset
  <2> QED BY <2>1, <2>2, <1>3
<1> QED BY <1>2, <1>5, <1>6

\* What is stored for a file is counted against its lines one by one.
LEMMA StoredCoversLines ==
  ASSUME IsFiniteSet(stored), NEW f \in StatementFile, NEW r,
         \A i \in New(f) : Fingerprint(f, i) \in StoredPrints
  PROVE  LineCount(f, r) <= StoredCount(r)
<1> DEFINE lines == {i \in New(f) : RowsOf[f][i] = r}
           copies == {x \in stored : x.print.row = r}
           g == [i \in lines |-> CHOOSE x \in stored : x.print = Fingerprint(f, i)]
<1>1. \A i \in lines : g[i] \in stored /\ g[i].print = Fingerprint(f, i)
  BY DEF StoredPrints
<1>2. \A i \in lines : g[i] \in copies
  BY <1>1 DEF Fingerprint
<1>3. \A i, j \in lines : g[i] = g[j] => i = j
  <2> SUFFICES ASSUME NEW i \in lines, NEW j \in lines, g[i] = g[j] PROVE i = j
    OBVIOUS
  <2>1. Fingerprint(f, i) = Fingerprint(f, j)
    BY <1>1
  <2> QED BY <2>1, FingerprintsDiffer
<1>4. g \in Injection(lines, copies)
  BY <1>2, <1>3 DEF Injection, IsInjective
<1>5. IsFiniteSet(copies)
  BY FS_Subset
<1>6. Cardinality(lines) <= Cardinality(copies)
  BY <1>4, <1>5, FS_Injection
<1> QED BY <1>6 DEF LineCount, StoredCount

LEMMA StatementInvGivesProperty == StatementInv => EveryLineOnce
<1> SUFFICES ASSUME StatementInv PROVE EveryLineOnce
  OBVIOUS
<1>1. answered \subseteq StatementFile
  BY DEF StatementInv, StatementTypeOK
<1>2. ASSUME NEW f \in answered, NEW i \in New(f)
      PROVE  LineCount(f, RowsOf[f][i]) <= StoredCount(RowsOf[f][i])
  BY <1>1, StoredCoversLines DEF StatementInv, RestIsStored
<1> QED BY <1>2 DEF EveryLineOnce, StatementInv, StoredOnce

LEMMA StatementInitInv == StatementInit => StatementInv
<1> SUFFICES ASSUME StatementInit PROVE StatementInv
  OBVIOUS
<1>1. \A q \in StatementRequest : imports[q] = NoImport
  BY DEF StatementInit
<1>2. StatementTypeOK
  <2>1. NoImport.step = "idle"
    BY DEF NoImport
  <2>2. begun \in 0..MaxImports
    BY StatementAssumption DEF StatementInit
  <2> QED BY <1>1, <2>1, <2>2 DEF StatementInit, StatementTypeOK
<1>3. ImportsShaped
  BY <1>1 DEF StatementInit, ImportsShaped
<1>4. BatchBeforeRows
  BY <1>1 DEF BatchBeforeRows, NoImport
<1>5. IsFiniteSet(stored) /\ RestIsStored /\ LeftIsNotStored /\ StoredOnce
  BY <1>1, FS_EmptySet DEF StatementInit, RestIsStored, LeftIsNotStored, StoredOnce
<1> QED BY <1>2, <1>3, <1>4, <1>5 DEF StatementInv

-----------------------------------------------------------------------------
(* The steps of an import *)

\* A request that goes on with the lines it has, in a batch it may now have.
GoesOn(q, f) ==
  /\ imports[q] # NoImport /\ imports[q].file = f
  /\ \E next : /\ imports' = [imports EXCEPT ![q] = next]
               /\ DOMAIN next = {"step", "file", "left", "exists", "next"}
               /\ next.step \in {"find", "batch", "number", "chunk"}
               /\ next.file = f /\ next.left = imports[q].left
               /\ next.step \in {"number", "chunk"} => f \in statements'

LEMMA GoingOnKeepsInv ==
  ASSUME StatementInv, NEW q \in StatementRequest, NEW f, GoesOn(q, f),
         statements \subseteq statements', statements' \subseteq StatementFile,
         UNCHANGED <<stored, begun, overlapped, doubled, answered>>
  PROVE  StatementInv'
<1>1. PICK next : /\ imports' = [imports EXCEPT ![q] = next]
                  /\ DOMAIN next = {"step", "file", "left", "exists", "next"}
                  /\ next.step \in {"find", "batch", "number", "chunk"}
                  /\ next.file = f /\ next.left = imports[q].left
                  /\ next.step \in {"number", "chunk"} => f \in statements'
  BY DEF GoesOn
<1>2. /\ imports[q] # NoImport /\ imports[q].file = f /\ f \in StatementFile
      /\ imports[q].left \subseteq New(f)
  BY DEF GoesOn, StatementInv, ImportsShaped
<1>3. DOMAIN imports = StatementRequest
  BY DEF StatementInv, ImportsShaped
<1>4. \A p \in StatementRequest :
        /\ p # q => imports'[p] = imports[p]
        /\ p = q => imports'[p] = next
  BY <1>1, <1>3
<1>5. next # NoImport
  BY <1>1 DEF NoImport
<1>6. StoredPrints' = StoredPrints
  BY DEF StoredPrints
<1>7. New(f)' = New(f) /\ \A i : Fingerprint(f, i)' = Fingerprint(f, i)
  BY DEF New, Fingerprint, Occurrence
<1>8. StatementTypeOK'
  BY <1>1, <1>2, <1>4 DEF StatementInv, StatementTypeOK
<1>9. ImportsShaped'
  BY <1>1, <1>2, <1>3, <1>4 DEF StatementInv, ImportsShaped
<1>10. BatchBeforeRows'
  BY <1>1, <1>2, <1>4 DEF StatementInv, BatchBeforeRows
<1>11. RestIsStored'
  BY <1>1, <1>2, <1>4, <1>6 DEF StatementInv, RestIsStored
<1>12. LeftIsNotStored'
  BY <1>1, <1>2, <1>4, <1>5, <1>6 DEF StatementInv, LeftIsNotStored
<1> QED BY <1>8, <1>9, <1>10, <1>11, <1>12 DEF StatementInv, StoredOnce

\* A request that ends wherever it stands leaves the account as it is.
LEMMA EndingKeepsInv ==
  ASSUME StatementInv, NEW q \in StatementRequest,
         imports' = [imports EXCEPT ![q] = NoImport],
         UNCHANGED <<stored, statements, begun, overlapped, doubled, answered>>
  PROVE  StatementInv'
<1>1. DOMAIN imports = StatementRequest
  BY DEF StatementInv, ImportsShaped
<1>2. \A p \in StatementRequest : imports'[p] = IF p = q THEN NoImport ELSE imports[p]
  BY <1>1
<1>3. StoredPrints' = StoredPrints
  BY DEF StoredPrints
<1>4. NoImport.step = "idle"
  BY DEF NoImport
<1>5. StatementTypeOK'
  BY <1>2, <1>4 DEF StatementInv, StatementTypeOK
<1>6. ImportsShaped' /\ BatchBeforeRows'
  BY <1>1, <1>2, <1>4 DEF StatementInv, ImportsShaped, BatchBeforeRows
<1>7. RestIsStored'
  BY <1>2, <1>3 DEF StatementInv, RestIsStored
<1>8. LeftIsNotStored'
  BY <1>2, <1>3 DEF StatementInv, LeftIsNotStored
<1> QED BY <1>5, <1>6, <1>7, <1>8 DEF StatementInv, StoredOnce

LEMMA ReadingKeepsInv ==
  ASSUME StatementInv, NEW q \in StatementRequest, NEW f \in StatementFile,
         NEW dup \in BOOLEAN, ReadFingerprints(q, f, dup)
  PROVE  StatementInv'
<1> DEFINE known == {i \in New(f) : Fingerprint(f, i) \in StoredPrints}
           left  == IF dup THEN New(f) ELSE New(f) \ known
           next  == IF left = {} THEN NoImport
                    ELSE [step |-> "find", file |-> f, left |-> left, exists |-> FALSE, next |-> 0]
<1>1. /\ imports[q] = NoImport /\ begun < MaxImports /\ begun' = begun + 1
      /\ imports' = [imports EXCEPT ![q] = next]
      /\ doubled' = (doubled \/ left \cap known # {})
      /\ overlapped' = (overlapped \/ \E p \in StatementRequest : imports[p] # NoImport)
      /\ UNCHANGED <<stored, statements, answered>>
  BY DEF ReadFingerprints
<1>2. /\ overlapped' \in BOOLEAN /\ doubled' \in BOOLEAN
      /\ ~overlapped' => ~overlapped /\ \A p \in StatementRequest : imports[p] = NoImport
      /\ ~doubled' => ~doubled /\ left \cap known = {}
  <2> HIDE DEF left, known
  <2> QED BY <1>1, Zenon DEF StatementInv, StatementTypeOK
<1>3. DOMAIN imports = StatementRequest
  BY DEF StatementInv, ImportsShaped
<1>4. \A p \in StatementRequest : imports'[p] = IF p = q THEN next ELSE imports[p]
  BY <1>1, <1>3
<1>5. StoredPrints' = StoredPrints
  BY <1>1 DEF StoredPrints
<1>6. left \subseteq New(f) /\ New(f) \ left \subseteq known
  OBVIOUS
<1>7. \/ next = NoImport
      \/ /\ next # NoImport /\ DOMAIN next = {"step", "file", "left", "exists", "next"}
         /\ next.step = "find" /\ next.file = f /\ next.left = left
  BY DEF NoImport
<1>8. NoImport.step = "idle"
  BY DEF NoImport
<1>9. \A i \in New(f) \ left : Fingerprint(f, i) \in StoredPrints
  BY <1>6
<1> HIDE DEF next
<1>10. StatementTypeOK'
  <2>1. begun' \in 0..MaxImports
    BY <1>1, StatementAssumption DEF StatementInv, StatementTypeOK
  <2> QED BY <1>1, <1>2, <1>4, <1>6, <1>7, <1>8, <2>1 DEF StatementInv, StatementTypeOK
<1>11. ImportsShaped' /\ BatchBeforeRows'
  BY <1>1, <1>3, <1>4, <1>6, <1>7, <1>8 DEF StatementInv, ImportsShaped, BatchBeforeRows
<1>12. RestIsStored'
  <2> HIDE DEF left, known
  <2>1. \A p \in StatementRequest \ {q} : imports'[p] = imports[p]
    BY <1>4
  <2>2. imports'[q] = NoImport \/ (imports'[q].file = f /\ imports'[q].left = left)
    BY <1>4, <1>7
  <2> QED BY <1>1, <1>5, <1>9, <2>1, <2>2 DEF StatementInv, RestIsStored
<1>13. LeftIsNotStored'
  <2>1. ~doubled' => \A i \in left : Fingerprint(f, i) \notin StoredPrints
    BY <1>2, <1>6
  <2> HIDE DEF left, known
  <2>2. imports'[q] = NoImport \/ (imports'[q].file = f /\ imports'[q].left = left)
    BY <1>4, <1>7
  <2>3. ~overlapped' => \A p \in StatementRequest \ {q} : imports'[p] = NoImport
    BY <1>2, <1>4
  <2> QED BY <1>5, <2>1, <2>2, <2>3 DEF LeftIsNotStored
<1>14. StoredOnce'
  BY <1>1, <1>2 DEF StatementInv, StoredOnce
<1> QED BY <1>1, <1>10, <1>11, <1>12, <1>13, <1>14 DEF StatementInv

\* Of the lines left, those of a chunk go into the account, with their prints.
LEMMA InsertingKeepsInv ==
  ASSUME StatementInv, NEW q \in StatementRequest, InsertRows(q)
  PROVE  StatementInv'
<1> DEFINE c     == imports[q]
           f     == c.file
           chunk == FirstOf(c.left)
           rest  == c.left \ chunk
           more  == {AccountRow(c, i) : i \in chunk}
           next  == IF rest = {} THEN NoImport
                    ELSE [c EXCEPT !.left = rest, !.next = c.next + Cardinality(chunk)]
<1>1. DOMAIN imports = StatementRequest /\ NoImport.step = "idle" /\ c.step = "chunk"
  BY DEF StatementInv, ImportsShaped, NoImport, InsertRows
<1>2. /\ c # NoImport /\ DOMAIN c = {"step", "file", "left", "exists", "next"}
      /\ f \in StatementFile /\ c.left \subseteq New(f) /\ f \in statements
  BY <1>1 DEF StatementInv, ImportsShaped, BatchBeforeRows
<1>3. UNCHANGED <<statements, begun, overlapped, doubled>>
  BY DEF InsertRows
<1>4. CASE /\ \E i \in chunk : ~Insertable(AccountRow(c, i))
           /\ imports' = [imports EXCEPT ![q] = NoImport]
           /\ UNCHANGED <<stored, answered>>
  BY <1>3, <1>4, EndingKeepsInv
<1>5. CASE /\ \A i \in chunk : Insertable(AccountRow(c, i))
           /\ stored' = stored \cup more
           /\ imports' = [imports EXCEPT ![q] = next]
           /\ answered' = IF rest = {} THEN answered \cup {f} ELSE answered
  <2>1. chunk \subseteq c.left
    BY DEF FirstOf
  <2>2. /\ \A x \in more : \E i \in chunk : x = AccountRow(c, i)
        /\ \A i \in chunk : AccountRow(c, i) \in more
        /\ \A i : AccountRow(c, i).file = f /\ AccountRow(c, i).print = Fingerprint(f, i)
    BY DEF AccountRow
  <2>3. \/ next = NoImport /\ rest = {}
        \/ /\ next # NoImport /\ DOMAIN next = {"step", "file", "left", "exists", "next"}
           /\ next.step = "chunk" /\ next.file = f /\ next.left = rest /\ rest # {}
    BY <1>1, <1>2
  <2>4. IsFiniteSet(stored')
    <3>1. chunk \subseteq New(f)
      BY <2>1, <1>2
    <3>2. IsFiniteSet(chunk)
      BY <3>1, <1>2, NewFinite
    <3>3. [i \in chunk |-> AccountRow(c, i)] \in Surjection(chunk, more)
      BY DEF Surjection
    <3>4. IsFiniteSet(more)
      BY <3>2, <3>3, FS_Surjection
    <3> QED BY <1>5, <3>4, FS_Union DEF StatementInv
  <2> HIDE DEF more, next, chunk
  <2>5. \A p \in StatementRequest : imports'[p] = IF p = q THEN next ELSE imports[p]
    BY <1>1, <1>5
  <2>6. /\ StoredPrints \subseteq StoredPrints'
        /\ \A i \in chunk : Fingerprint(f, i) \in StoredPrints'
        /\ \A y \in StoredPrints' : y \in StoredPrints \/ \E i \in chunk : y = Fingerprint(f, i)
    BY <1>5, <2>2 DEF StoredPrints
  <2>7. \A i \in New(f) \ rest : Fingerprint(f, i) \in StoredPrints'
    BY <1>2, <2>6 DEF StatementInv, RestIsStored
  <2>8. StatementTypeOK'
    <3>1. \A x \in more : x.file \in statements /\ Storable(x.print.row)
      BY <1>2, <1>5, <2>2 DEF Insertable
    <3>2. answered' \subseteq statements
      BY <1>2, <1>5 DEF StatementInv, StatementTypeOK
    <3>3. \A p \in StatementRequest :
            /\ imports'[p].step \in {"idle", "find", "batch", "number", "chunk"}
            /\ imports'[p] # NoImport => imports'[p].left \subseteq New(imports'[p].file)
      BY <1>1, <1>2, <2>3, <2>5 DEF StatementInv, StatementTypeOK
    <3> QED BY <1>3, <1>5, <3>1, <3>2, <3>3 DEF StatementInv, StatementTypeOK
  <2>9. ImportsShaped' /\ BatchBeforeRows'
    BY <1>1, <1>2, <1>3, <1>5, <2>3, <2>5 DEF StatementInv, ImportsShaped, BatchBeforeRows
  <2>10. RestIsStored'
    <3>1. ASSUME NEW g \in answered', NEW i \in New(g) PROVE Fingerprint(g, i) \in StoredPrints'
      <4>1. CASE g \in answered
        BY <4>1, <2>6 DEF StatementInv, RestIsStored
      <4>2. CASE g \notin answered
        <5>1. g = f /\ rest = {}
          BY <4>2, <1>5
        <5> QED BY <5>1, <2>7
      <4> QED BY <4>1, <4>2
    <3>2. ASSUME NEW p \in StatementRequest, imports'[p] # NoImport,
                 NEW i \in New(imports'[p].file) \ imports'[p].left
          PROVE  Fingerprint(imports'[p].file, i) \in StoredPrints'
      <4>1. CASE p = q
        BY <4>1, <3>2, <2>3, <2>5, <2>7
      <4>2. CASE p # q
        BY <4>2, <3>2, <2>5, <2>6 DEF StatementInv, RestIsStored
      <4> QED BY <4>1, <4>2
    <3> QED BY <3>1, <3>2 DEF RestIsStored
  <2>11. LeftIsNotStored'
    <3> SUFFICES ASSUME ~overlapped
                 PROVE  /\ \A p, r \in StatementRequest :
                             imports'[p] # NoImport /\ imports'[r] # NoImport => p = r
                        /\ ~doubled => \A p \in StatementRequest : imports'[p] # NoImport =>
                             \A i \in imports'[p].left :
                                Fingerprint(imports'[p].file, i) \notin StoredPrints'
      BY <1>3 DEF LeftIsNotStored
    <3>1. \A p \in StatementRequest : imports[p] # NoImport => p = q
      BY <1>2 DEF StatementInv, LeftIsNotStored
    <3>2. \A p \in StatementRequest : imports'[p] # NoImport => p = q /\ imports'[p] = next
      BY <3>1, <2>5
    <3>3. ASSUME ~doubled, NEW i \in rest PROVE Fingerprint(f, i) \notin StoredPrints'
      <4>1. i \in c.left /\ i \notin chunk
        OBVIOUS
      <4>2. Fingerprint(f, i) \notin StoredPrints
        BY <3>3, <4>1, <1>2 DEF StatementInv, LeftIsNotStored
      <4>3. \A j \in chunk : Fingerprint(f, i) # Fingerprint(f, j)
        BY <4>1, <2>1, <1>2, FingerprintsDiffer
      <4> QED BY <4>2, <4>3, <2>6
    <3> QED BY <3>2, <3>3, <2>3
  <2>12. StoredOnce'
    <3> SUFFICES ASSUME ~overlapped, ~doubled, NEW x \in stored', NEW y \in stored',
                        x.print = y.print
                 PROVE  x = y
      BY <1>3 DEF StoredOnce
    <3>1. \A i \in chunk : Fingerprint(f, i) \notin StoredPrints
      BY <2>1, <1>2 DEF StatementInv, LeftIsNotStored
    <3>2. \A z \in stored : z.print \in StoredPrints
      BY DEF StoredPrints
    <3>3. CASE x \in stored /\ y \in stored
      BY <3>3 DEF StatementInv, StoredOnce
    <3>4. CASE x \in more /\ y \in more
      <4>1. PICK i \in chunk, j \in chunk : x = AccountRow(c, i) /\ y = AccountRow(c, j)
        BY <3>4, <2>2
      <4>2. Fingerprint(f, i) = Fingerprint(f, j)
        BY <4>1, <2>2
      <4>3. i = j
        BY <4>2, <2>1, <1>2, FingerprintsDiffer
      <4> QED BY <4>1, <4>3
    <3>5. CASE (x \in stored /\ y \in more) \/ (x \in more /\ y \in stored)
      BY <3>5, <3>1, <3>2, <2>2
    <3> QED BY <3>3, <3>4, <3>5, <1>5
  <2> QED BY <2>4, <2>8, <2>9, <2>10, <2>11, <2>12 DEF StatementInv
<1>6. \/ /\ \A i \in chunk : Insertable(AccountRow(c, i))
         /\ stored' = stored \cup more
         /\ imports' = [imports EXCEPT ![q] = next]
         /\ answered' = IF rest = {} THEN answered \cup {f} ELSE answered
      \/ /\ \E i \in chunk : ~Insertable(AccountRow(c, i))
         /\ imports' = [imports EXCEPT ![q] = NoImport]
         /\ UNCHANGED <<stored, answered>>
  BY Zenon DEF InsertRows
<1> HIDE DEF chunk, more, next, rest
<1> QED BY <1>4, <1>5, <1>6

LEMMA StatementStepInv == StatementInv /\ [StatementNext]_statementVars => StatementInv'
<1> SUFFICES ASSUME StatementInv, [StatementNext]_statementVars PROVE StatementInv'
  OBVIOUS
<1>1. ASSUME NEW q \in StatementRequest, imports[q] # NoImport
      PROVE  /\ imports[q].file \in StatementFile
             /\ DOMAIN imports[q] = {"step", "file", "left", "exists", "next"}
  BY <1>1 DEF StatementInv, ImportsShaped
<1>2. NoImport.step = "idle" /\ statements \subseteq StatementFile
  BY DEF NoImport, StatementInv, StatementTypeOK
<1>3. ASSUME NEW q \in StatementRequest, NEW f \in StatementFile, NEW dup \in BOOLEAN,
             ReadFingerprints(q, f, dup)
      PROVE  StatementInv'
  BY <1>3, ReadingKeepsInv
<1>4. ASSUME NEW q \in StatementRequest, FindBatch(q) PROVE StatementInv'
  <2> DEFINE f == imports[q].file
             next == [imports[q] EXCEPT !.step = "batch", !.exists = f \in statements]
  <2>1. imports[q] # NoImport /\ imports' = [imports EXCEPT ![q] = next]
        /\ UNCHANGED <<stored, statements, begun, overlapped, doubled, answered>>
    BY <1>2, <1>4 DEF FindBatch
  <2>2. DOMAIN next = {"step", "file", "left", "exists", "next"} /\ next.step = "batch"
        /\ next.file = f /\ next.left = imports[q].left
    BY <2>1, <1>1
  <2>3. GoesOn(q, f)
    BY <2>1, <2>2 DEF GoesOn
  <2> QED BY <2>1, <2>3, <1>2, GoingOnKeepsInv
<1>5. ASSUME NEW q \in StatementRequest, CreateBatch(q) PROVE StatementInv'
  <2> DEFINE f == imports[q].file
             next == [imports[q] EXCEPT !.step = "number"]
  <2>1. imports[q] # NoImport /\ UNCHANGED <<stored, begun, overlapped, doubled, answered>>
    BY <1>2, <1>5 DEF CreateBatch
  <2>2. CASE imports' = [imports EXCEPT ![q] = NoImport] /\ UNCHANGED statements
    BY <2>1, <2>2, EndingKeepsInv
  <2>3. CASE statements' = statements \cup {f} /\ imports' = [imports EXCEPT ![q] = next]
    <3>1. DOMAIN next = {"step", "file", "left", "exists", "next"} /\ next.step = "number"
          /\ next.file = f /\ next.left = imports[q].left
      BY <2>1, <1>1
    <3>2. GoesOn(q, f)
      BY <2>1, <2>3, <3>1 DEF GoesOn
    <3> QED BY <2>1, <2>3, <3>2, <1>1, <1>2, GoingOnKeepsInv
  <2> QED BY <1>5, <2>2, <2>3 DEF CreateBatch
<1>6. ASSUME NEW q \in StatementRequest, ReadRowNumber(q) PROVE StatementInv'
  <2> DEFINE f == imports[q].file
             next == [imports[q] EXCEPT !.step = "chunk", !.next = LastNumber(f) + 1]
  <2>1. imports[q] # NoImport /\ imports' = [imports EXCEPT ![q] = next]
        /\ f \in statements
        /\ UNCHANGED <<stored, statements, begun, overlapped, doubled, answered>>
    BY <1>2, <1>6 DEF ReadRowNumber, StatementInv, BatchBeforeRows
  <2>2. DOMAIN next = {"step", "file", "left", "exists", "next"} /\ next.step = "chunk"
        /\ next.file = f /\ next.left = imports[q].left
    BY <2>1, <1>1
  <2>3. GoesOn(q, f)
    BY <2>1, <2>2 DEF GoesOn
  <2> QED BY <2>1, <2>3, <1>2, GoingOnKeepsInv
<1>7. ASSUME NEW q \in StatementRequest, InsertRows(q) PROVE StatementInv'
  BY <1>7, InsertingKeepsInv
<1>8. ASSUME NEW q \in StatementRequest, ImportDies(q) PROVE StatementInv'
  BY <1>8, EndingKeepsInv DEF ImportDies
<1>9. CASE UNCHANGED statementVars
  <2>1. UNCHANGED <<stored, statements, imports, begun, overlapped, doubled, answered>>
    BY <1>9 DEF statementVars
  <2>2. StoredPrints' = StoredPrints
    BY <2>1 DEF StoredPrints
  <2>3. StatementTypeOK' /\ ImportsShaped' /\ BatchBeforeRows'
    BY <2>1 DEF StatementInv, StatementTypeOK, ImportsShaped, BatchBeforeRows
  <2>4. RestIsStored' /\ LeftIsNotStored' /\ StoredOnce'
    BY <2>1, <2>2 DEF StatementInv, RestIsStored, LeftIsNotStored, StoredOnce
  <2> QED BY <2>1, <2>3, <2>4 DEF StatementInv
<1> QED BY <1>3, <1>4, <1>5, <1>6, <1>7, <1>8, <1>9 DEF StatementNext

\* Stored rows belong to a batch and can be stored, answered imports have one,
\* and a request has only lines of its file left to insert.
THEOREM StatementTypeCorrect == StatementSpec => []StatementTypeOK
<1>1. StatementInv => StatementTypeOK
  BY DEF StatementInv
<1> QED BY <1>1, StatementInitInv, StatementStepInv, PTL DEF StatementSpec

\* For files of any length, chunks of any size and any number of requests that
\* end anywhere and come again: an import that answers has every line of its
\* file in the account as often as the file has it, and without overlap and
\* without duplicates asked for nothing is there twice.
THEOREM EveryLineOnceHolds == StatementSpec => []EveryLineOnce
BY StatementInvGivesProperty, StatementInitInv, StatementStepInv, PTL DEF StatementSpec

=============================================================================
