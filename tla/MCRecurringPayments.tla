------------------------- MODULE MCRecurringPayments -------------------------
(* Instances of RecurringPayments: workers and runs are interchangeable.    *)
EXTENDS RecurringPayments, TLC

Symmetry == Permutations(Workers) \cup Permutations(Runs)
=============================================================================
