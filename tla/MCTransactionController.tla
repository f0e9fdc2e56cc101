------------------------ MODULE MCTransactionController ------------------------
(* Score triples around the thresholds of the decision matrix. *)
EXTENDS TransactionController, TLC

MCScoreTriples == {[graph |-> 95, xgboost |-> 20, biometric |-> 10],
                   [graph |-> 5, xgboost |-> 60, biometric |-> 90]}

Symmetry == Permutations(Requests)
=============================================================================
