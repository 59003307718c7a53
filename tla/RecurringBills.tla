---------------------------- MODULE RecurringBills ----------------------------
(***************************************************************************)
(* Recurring obligations and the monthly generation of their draft bills:  *)
(* the obligation form, the import that also creates obligations, and the  *)
(* generate route, which anybody may call any number of times in a month.  *)
(*                                                                         *)
(* The route reads the obligations that are due and then, one by one,      *)
(* inserts the bill of the current month and moves the schedule to the     *)
(* next month; each is a call that may fail, and the request may die       *)
(* between any two.  A bill is unique by obligation and month.             *)
(*                                                                         *)
(* Abstracted: days within a month (a schedule is the month from whose     *)
(* first day on the obligation is due), amounts, categories, audit rows.   *)
(***************************************************************************)
EXTENDS Naturals, FiniteSets

CONSTANTS
  Obligation,    \* ids of rows of recurring_obligations
  GenerateCall,  \* generate requests that may be in progress at once
  LastMonth      \* bound: months are 1..LastMonth

ASSUME RecurringAssumption == LastMonth \in Nat \ {0}

Month == 1..LastMonth
NoMonth == 0   \* the null of next_generation_date
Unsaved == LastMonth + 2

VARIABLES
  month,      \* the current month
  schedule,   \* next_generation_date of each obligation, as a month
  since,      \* the month an obligation was entered in
  generated,  \* the bills: pairs of an obligation and generated_month
  calls       \* where each generate request stands

recurringVars == <<month, schedule, since, generated, calls>>

IdleCall == [step |-> "idle"]

\* Active obligations with a schedule that has come.
DueNow(m) == {o \in Obligation : schedule[o] # NoMonth /\ schedule[o] <= m}

-----------------------------------------------------------------------------
\* The form names no schedule, and the column has no default.
SaveRecurring(o) ==
  /\ schedule[o] = Unsaved
  /\ schedule' = [schedule EXCEPT ![o] = NoMonth]
  /\ since' = [since EXCEPT ![o] = month]
  /\ UNCHANGED <<month, generated, calls>>

\* The import schedules the obligation for the day of the import.
ImportRecurring(o) ==
  /\ schedule[o] = Unsaved
  /\ schedule' = [schedule EXCEPT ![o] = month]
  /\ since' = [since EXCEPT ![o] = month]
  /\ UNCHANGED <<month, generated, calls>>

ReadObligations(q) ==
  /\ calls[q] = IdleCall
  /\ calls' = [calls EXCEPT ![q] =
       [step |-> "bill", month |-> month, left |-> DueNow(month), at |-> {}]]
  /\ UNCHANGED <<month, schedule, since, generated>>

\* A bill of the month that is already there counts as done; any other refusal
\* is reported and the schedule left where it is.
InsertBill(q, o) ==
  /\ calls[q].step = "bill" /\ o \in calls[q].left
  /\ \/ /\ generated' = generated \cup {<<o, calls[q].month>>}
        /\ calls' = [calls EXCEPT ![q].step = "schedule", ![q].at = {o},
                                  ![q].left = @ \ {o}]
     \/ /\ calls' = [calls EXCEPT ![q].left = @ \ {o}]
        /\ UNCHANGED generated
  /\ UNCHANGED <<month, schedule, since>>

\* Mutant of NextMonth: the schedule moves on from where it stood.
NextMonthFromSchedule(o, m) == schedule[o] + 1

\* The first day of the month after the one the request began in.
NextMonth(o, m) == m + 1

AdvanceSchedule(q, o) ==
  /\ calls[q].step = "schedule" /\ o \in calls[q].at
  /\ \/ /\ schedule' = [schedule EXCEPT ![o] = NextMonth(o, calls[q].month)]
        /\ calls' = [calls EXCEPT ![q].step = "bill", ![q].at = {}]
     \/ /\ calls' = [calls EXCEPT ![q].step = "bill", ![q].at = {}]
        /\ UNCHANGED schedule
  /\ UNCHANGED <<month, since, generated>>

\* All that was due has been taken up.
AnswerGenerate(q) ==
  /\ calls[q].step = "bill" /\ calls[q].left = {}
  /\ calls' = [calls EXCEPT ![q] = IdleCall]
  /\ UNCHANGED <<month, schedule, since, generated>>

GenerateDies(q) ==
  /\ calls[q] # IdleCall
  /\ calls' = [calls EXCEPT ![q] = IdleCall]
  /\ UNCHANGED <<month, schedule, since, generated>>

MonthPasses ==
  /\ month < LastMonth
  /\ month' = month + 1
  /\ UNCHANGED <<schedule, since, generated, calls>>

-----------------------------------------------------------------------------
RecurringInit ==
  /\ month = 1
  /\ schedule = [o \in Obligation |-> Unsaved]
  /\ since = [o \in Obligation |-> NoMonth]
  /\ generated = {}
  /\ calls = [q \in GenerateCall |-> IdleCall]

RecurringNext ==
  \/ \E o \in Obligation : SaveRecurring(o)
  \/ \E o \in Obligation : ImportRecurring(o)
  \/ \E q \in GenerateCall : ReadObligations(q)
  \/ \E q \in GenerateCall, o \in Obligation : InsertBill(q, o)
  \/ \E q \in GenerateCall, o \in Obligation : AdvanceSchedule(q, o)
  \/ \E q \in GenerateCall : AnswerGenerate(q)
  \/ \E q \in GenerateCall : GenerateDies(q)
  \/ MonthPasses

RecurringSpec == RecurringInit /\ [][RecurringNext]_recurringVars

RecurringTypeOK ==
  /\ month \in Month
  /\ schedule \in [Obligation -> 0..Unsaved]
  /\ since \in [Obligation -> 0..LastMonth]
  /\ generated \subseteq Obligation \X Month
  /\ \A q \in GenerateCall :
        calls[q] # IdleCall =>
          /\ calls[q].step \in {"bill", "schedule"}
          /\ calls[q].month \in 1..month
          /\ calls[q].left \subseteq Obligation /\ calls[q].at \subseteq Obligation
          /\ \A o \in calls[q].at : <<o, calls[q].month>> \in generated

\* The schedule of an obligation passes a month only with that month's bill in
\* the table, by a request that overlaps another or ends in a later month too:
\* the bill of the month before the scheduled one exists once it has moved.
ScheduleFollowsBill ==
  \A o \in Obligation :
     schedule[o] \in Month \cup {LastMonth + 1} /\ schedule[o] > since[o] =>
        <<o, schedule[o] - 1>> \in generated
=============================================================================
