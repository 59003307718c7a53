------------------------ MODULE MCPaymentCapture ------------------------
(* Finite instances of PaymentCapture for TLC: a supplier payment, which
   requires the invoice and the payment evidence, sent with both. *)
EXTENDS PaymentCapture, TLC

CONSTANTS q1, h1   \* a request, and the payload it is sent with

MCRole == {"invoice", "payment_evidence"}
MCFile == {"f1", "f2", "f3"}

MCDeclared ==
  << [part |-> "a", role |-> "invoice", file |-> "f1"],
     [part |-> "b", role |-> "payment_evidence", file |-> "f2"] >>

\* One PDF that is both the invoice and the evidence, declared as two parts.
MCSharedFile ==
  << [part |-> "a", role |-> "invoice", file |-> "f1"],
     [part |-> "b", role |-> "payment_evidence", file |-> "f1"] >>

\* A person attaches a file of their own.
MCHumanDoc == {<<"invoice", "f3">>}

\* Two failures while no person acts, one where people do.
MCNext == Next /\ (touched' => failures' <= 1)
\* Which payload the first delivery has does not matter.
MCInit == Init /\ sent[q1] = h1
MCFairSpec == MCInit /\ [][MCNext]_vars /\ Fairness
=========================================================================
