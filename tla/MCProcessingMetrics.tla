------------------------ MODULE MCProcessingMetrics ------------------------
(* An instance of ProcessingMetrics for TLC: executions are               *)
(* interchangeable.                                                       *)
EXTENDS ProcessingMetrics, TLC

AttemptSymmetry == Permutations(Attempts)
=============================================================================
