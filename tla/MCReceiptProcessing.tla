------------------------ MODULE MCReceiptProcessing ------------------------
(***************************************************************************)
(* ReceiptProcessing for TLC: executions are interchangeable.              *)
(***************************************************************************)
EXTENDS ReceiptProcessing, TLC

HorseSymmetry == Permutations(Horses)
=============================================================================
