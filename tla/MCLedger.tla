------------------------------ MODULE MCLedger -------------------------------
(* Instances of Ledger for TLC. *)
EXTENDS Ledger, TLC

\* Workers run the same code and are never told apart.
WorkerSymmetry == Permutations(Workers)

\* Money leaves with every transaction.
Purchases == {-1}
=============================================================================
