---------------------------- MODULE MCBillIntake ----------------------------
(* Finite instances of BillIntake for TLC: two deliveries of two intakes. *)
EXTENDS BillIntake, TLC

CONSTANTS i1, i2, d1, d2, e1, e2, f1

\* i2 replaces i1, which FinanceOps sent without an entity.
Replaced ==
  [intake |-> (d1 :> i1) @@ (d2 :> i2),
   declared |-> (i1 :> None) @@ (i2 :> e1),
   supersedes |-> (i1 :> None) @@ (i2 :> i1),
   file |-> (i1 :> f1) @@ (i2 :> f1)]

\* Two intakes with the same file, one sent without its entity.
SameFile == [Replaced EXCEPT !.declared = (i1 :> e1) @@ (i2 :> None),
                             !.supersedes = [i \in Intake |-> None]]

\* One intake, sent without its entity, twice at once.
Twice == [SameFile EXCEPT !.intake = (d1 :> i2) @@ (d2 :> i2)]

MCScenario == {Replaced, SameFile, Twice}
=============================================================================
