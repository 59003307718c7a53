------------------------------ MODULE BankTie ------------------------------
(***************************************************************************)
(* What the Payment Register promises the books about bank statements,     *)
(* whatever the order in which people suggest, confirm, unmatch, review    *)
(* and post: a tie of a payment to a bank row excludes every other tie of  *)
(* either, and while a payment is held (in finance review or beyond) no    *)
(* tie of it is made or undone.                                            *)
(***************************************************************************)
CONSTANTS Payment, BankRow

VARIABLES
  ties,   \* the confirmed pairs of a payment and a bank row
  held    \* payments that finance review has in its hands

tieVars == <<ties, held>>

OneToOne ==
  \A x, y \in ties : (x[1] = y[1] \/ x[2] = y[2]) => x = y

TieInit == ties = {} /\ held = {}

Tie(p, b) ==
  /\ p \notin held
  /\ \A x \in ties : x[1] # p /\ x[2] # b
  /\ ties' = ties \cup {<<p, b>>}
  /\ UNCHANGED held

Untie(p, b) ==
  /\ p \notin held
  /\ <<p, b>> \in ties
  /\ ties' = ties \ {<<p, b>>}
  /\ UNCHANGED held

Hold(p) ==
  /\ held' = held \cup {p}
  /\ UNCHANGED ties

Release(p) ==
  /\ held' = held \ {p}
  /\ UNCHANGED ties

TieNext ==
  \E p \in Payment :
     \/ Hold(p) \/ Release(p)
     \/ \E b \in BankRow : Tie(p, b) \/ Untie(p, b)

TieSpec == TieInit /\ [][TieNext]_tieVars
=============================================================================
