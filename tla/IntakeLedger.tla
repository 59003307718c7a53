---------------------------- MODULE IntakeLedger ----------------------------
(***************************************************************************)
(* What the table of finance intakes (migration 0023) promises of every    *)
(* row, whoever writes to it and in whatever order: an intake goes through *)
(* its stages one by one; it gets its entity once, declared by FinanceOps  *)
(* or resolved by a reviewer; it is superseded or resolved, never both;    *)
(* and a verdict, for a complete intake or against any, ends it.           *)
(***************************************************************************)
EXTENDS Naturals

CONSTANTS Intake, None

VARIABLES
  stage,     \* how far each intake has come
  verdict,   \* what a reviewer has decided of it, or None
  lineage    \* the intake each one supersedes, or None

Stages == <<"awaiting_entity", "received", "bill_created",
            "document_attached", "complete">>

Superseded(i) == \E j \in Intake : lineage[j] = i /\ stage[j] # "none"

Init ==
  /\ stage = [i \in Intake |-> "none"]
  /\ verdict = [i \in Intake |-> None]
  /\ lineage \in [Intake -> Intake \cup {None}]

\* A successor has its entity, and finds its original unresolved, undecided and
\* superseded by no other intake.
Replaceable(i) ==
  stage[i] = "awaiting_entity" /\ verdict[i] = None /\ ~Superseded(i)

Store(i) ==
  /\ stage[i] = "none"
  /\ lineage[i] # None => Replaceable(lineage[i])
  /\ \E s \in {"awaiting_entity", "received"} :
       /\ s = "awaiting_entity" => lineage[i] = None
       /\ stage' = [stage EXCEPT ![i] = s]
  /\ UNCHANGED verdict

Proceed(i) ==
  /\ verdict[i] = None
  /\ ~Superseded(i)
  /\ \E k \in 1..4 : /\ stage[i] = Stages[k]
                     /\ stage' = [stage EXCEPT ![i] = Stages[k + 1]]
  /\ UNCHANGED verdict

Decide(i) ==
  /\ stage[i] # "none"
  /\ verdict[i] = None
  /\ \E v \in {"rejected", "data_verified"} :
       /\ v = "data_verified" => stage[i] = "complete"
       /\ verdict' = [verdict EXCEPT ![i] = v]
  /\ UNCHANGED stage

Next ==
  /\ \E i \in Intake : Store(i) \/ Proceed(i) \/ Decide(i)
  /\ UNCHANGED lineage

Spec == Init /\ [][Next]_<<stage, verdict, lineage>>
=============================================================================
