------------------------- MODULE MCObjectLifecycle -------------------------
(* Instances of ObjectLifecycle for TLC: receipts are interchangeable, and *)
(* so are processes.                                                       *)
EXTENDS ObjectLifecycle, TLC

ObjectSymmetry == Permutations(Receipts) \union Permutations(Processes)
=============================================================================
