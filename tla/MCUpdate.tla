------------------------------ MODULE MCUpdate ------------------------------
EXTENDS Update, TLC

\* Transactions are told apart only by equality.
TxnSymmetry == Permutations(Txns)
=============================================================================
