-------------------------- MODULE MCMonthlyReport --------------------------
(* Instances of MonthlyReport for TLC: requests are interchangeable. *)
EXTENDS MonthlyReport, TLC

RequestSymmetry == Permutations(Requests)
=============================================================================
