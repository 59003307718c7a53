------------------------ MODULE MCPaymentRegister ------------------------
(* Finite instances of PaymentRegister for TLC. *)
EXTENDS PaymentRegister, TLC

CONSTANTS d1, d2

\* A version that needs the invoice (supplier_expense) and one that does not.
MCDocRole == {"invoice"}
MCRequiredDocs == (d1 :> {"invoice"} @@ d2 :> {})

\* One version of the details that needs no document.
MCNoDocs == (d1 :> {})

RowSymmetry == Permutations(Payment) \cup Permutations(BankRow)
==========================================================================
